---- MODULE Spec2Model ----
(***************************************************************************)
(* Model of the dev3000 session supervisor (DevEnvironment,                *)
(* dev-environment.ts) together with the command line entry point          *)
(* (cli.ts).  Node runs every callback to completion, so one action of     *)
(* the model is one callback of the event loop: it runs from the event     *)
(* that resumes the code up to the next await on an external event.  A     *)
(* rejected promise travels from the throw to the catch block of cli.ts    *)
(* in microtasks, so a throw inside start() and the process.exit(1) of     *)
(* cli.ts belong to the same action.                                       *)
(*                                                                         *)
(* Nine specifications share the module.  Spec is the supervisor from its  *)
(* construction on; SpecFair is the supervisor with the progress of its    *)
(* timers, probes and subprocesses, for the properties of termination.     *)
(* SpecSession is a running session with the output of the application     *)
(* and the events of the browser.  SpecLogFiles is the log                 *)
(* directory and the alias across the session starts of one project.       *)
(* SpecProcess is one call of OutputProcessor.process on any chunk,        *)
(* SpecFormat one call on a chunk of lines in and near the formats of the  *)
(* process managers, SpecDetect one call on a stderr line written with the *)
(* texts the error detectors look for.  SpecFactory is the calls of the    *)
(* factories for one launch command in one working directory.  SpecCli is  *)
(* a session from the parsed command line to its first chunk of output.    *)
(***************************************************************************)
EXTENDS Integers, Sequences, FiniteSets, TLC

VARIABLES
    pc,                 \* position of start(): the await it is suspended at
    portIdx,            \* index into ports of the port checkPortsAvailable is probing
    portInUse,          \* environment: does lsof report a process on the port
    handlersInstalled,  \* setupCleanupHandlers has registered the SIGINT handler
    attempts,           \* attempts counter of the running readiness wait
    probe,              \* readiness wait: "none", "inflight" (fetch), "sleeping" (setTimeout)
    ready,              \* spinner.succeed('Development environment ready!') was called
    waitResult,         \* how each readiness wait ended: "pending", "ready", "exhausted"
    serverProcess,      \* this.serverProcess: "null", "running", "exited"
    serverExitCode,     \* exit code delivered to the serverProcess 'exit' handler
    mcpServerProcess,   \* this.mcpServerProcess: "null", "running", "exited"
    mcpExitCode,        \* exit code delivered to the mcpServerProcess 'exit' handler
    installProcess,     \* installer child: "null", "running", "exited", "killed", "error"
    installPromise,     \* promise of installMcpServerDeps: "none", "pending", "resolved", "rejected"
    installTimer,       \* the 3 minute timeout is armed
    installExitCode,    \* exit code delivered to the installProcess 'exit' handler
    cdpMonitor,         \* this.cdpMonitor: "null" or "created"
    cdpPhase,           \* startCDPMonitoring: "none", "starting", "navigating", "done", "failed"
    isShuttingDown,     \* this.isShuttingDown
    shutdownKind,       \* which body set the flag: "none", "sigint", "failure"
    sdPc,               \* position of the shutdown body: "none", "killing", "closingCdp"
    killPending,        \* ports whose kill subprocess has not exited yet
    killsIssued,        \* per port: number of kill subprocesses spawned
    bodyRuns,           \* number of times a shutdown body was entered
    cdpShutdownCalls,   \* number of calls of cdpMonitor.shutdown()
    triggers,           \* per source: invocations of a shutdown entry point
    exited,             \* process.exit was called (or the process was killed)
    exitCode,           \* status passed to process.exit
    log                 \* the log file: sequence of appended entries

\* one call of OutputProcessor.process
VARIABLES
    text,               \* the chunk passed to process()
    isError,            \* the isError argument: the chunk came from stderr
    formatParser,       \* OutputProcessor.formatParser: its kind
    errorDetector,      \* OutputProcessor.errorDetector: its kind
    parsedLines,        \* const parsedLines = this.formatParser.parse(text)
    entries,            \* the LogEntry[] that process() returned
    processed           \* process() has returned

\* the log directory and the alias, across the session starts of one project
VARIABLES
    logDirFiles,        \* the project's log files, most recently modified first
    symlink,            \* the file /tmp/dev3000.log points at (0: no alias)
    sessionStarts,      \* number of calls of createPersistentLogFile so far
    lateAppends,        \* appends by sessions that were already running
    externalUnlinks     \* log files removed by something other than dev3000

\* output of the application process and events of the browser
VARIABLES
    stdoutRead,         \* symbols of stdoutStream delivered to the 'data' handler
    stderrRead,         \* symbols of stderrStream delivered to the 'data' handler
    browserEvents,      \* calls of the callback given to CDPMonitor
    console             \* raw messages written by console.error('[CRITICAL ERROR]', ...)

\* calls of the factories that choose the parser and the detector
VARIABLES
    serverCommand,      \* the launch command given to the factory
    markerFiles,        \* the marker files the working directory holds
    factoryCalls,       \* the calls made so far: arguments and the result
    options,            \* the --process-manager and --framework options of the CLI
    outputParser        \* this.outputParser of the DevEnvironment: its kind

startVars == <<pc, portIdx, attempts, probe, ready, waitResult, handlersInstalled>>
procVars  == <<serverProcess, serverExitCode, mcpServerProcess, mcpExitCode>>
instVars  == <<installProcess, installPromise, installTimer, installExitCode>>
cdpVars   == <<cdpMonitor, cdpPhase>>
sdVars    == <<isShuttingDown, shutdownKind, sdPc, killPending, killsIssued,
               bodyRuns, cdpShutdownCalls>>
exitVars  == <<exited, exitCode>>
parseVars == <<text, isError, formatParser, errorDetector, parsedLines, entries,
               processed>>
fsVars    == <<logDirFiles, symlink, sessionStarts, lateAppends, externalUnlinks>>
ioVars    == <<stdoutRead, stderrRead, browserEvents, console>>
factVars  == <<serverCommand, markerFiles, factoryCalls, options, outputParser>>
envVars   == <<portInUse, parseVars, fsVars, ioVars, factVars>>
vars == <<startVars, envVars, procVars, instVars, cdpVars, sdVars, exitVars,
          triggers, log>>

----------------------------------------------------------------------------
(* Bounds of the model *)

\* SIGINT signals the environment delivers in one run
MaxSigints == 2

\* longest chunk, in symbols, that process() is called with
MaxTextLen == 4

\* session starts of one project in one log directory
MaxStarts == 11

\* log writes of sessions that are still running when a later one starts
MaxLateAppends == 1

\* log files removed from outside (rm, a cleaner of the temp directory)
MaxExternalUnlinks == 1

\* longest chunk, in symbols, that a 'data' event of the application delivers
MaxChunkLen == 3

\* events the browser reports in one session
MaxBrowserEvents == 1

\* lines that follow the first line of a chunk given to a format parser
MaxFollowingLines == 1

\* symbols of a message given to an error detector
MaxMessageLen == 3

\* calls of a factory with one launch command in one working directory
MaxFactoryCalls == 2

----------------------------------------------------------------------------
(* Program constants *)

\* const maxAttempts = 30 (waitForServer and waitForMcpServer)
maxAttempts == 30

\* the exit code `null` of a child that was ended by a signal
NullCode == -1

\* const ports = [this.options.port, this.options.mcpPort]
ports == <<"port", "mcpPort">>
Ports == {ports[i] : i \in 1..Len(ports)}

\* exit codes the application process is observed with: null, 0, the
\* allow-listed 1, 130, 143, and a code outside the allow-list
ExitCodes == {NullCode, 0, 1, 2, 130, 143}

\* exit codes the companion process and the installer are observed with
ChildExitCodes == {NullCode, 0, 1}

\* outcomes of one fetch(): 2xx, 404, another status, network error or timeout
ProbeOutcomes == {"ok", "notFound", "otherStatus", "error"}

TriggerSources == {"sigint", "serverExit", "cdp"}

----------------------------------------------------------------------------
(* Logger *)

\* Logger.log: appendFileSync of one entry `[SOURCE] message`
Logger_log_overwrites(file, source, message) ==
    <<[source |-> source, message |-> message]>>

Logger_log(file, source, message) ==
    Append(file, [source |-> source, message |-> message])

----------------------------------------------------------------------------
(* process.exit *)

processExit(code) ==
    /\ exited' = TRUE
    /\ exitCode' = code

\* catch block of the cli action: report and process.exit(1)
cliCatch == processExit(1)

----------------------------------------------------------------------------
(* Shutdown entry points *)

\* the part of a shutdown body that runs before its first external await:
\* set the flag and spawn `lsof -ti:<port> | xargs kill -9` for both ports
shutdownBody(kind) ==
    /\ isShuttingDown' = TRUE
    /\ shutdownKind' = kind
    /\ sdPc' = "killing"
    /\ killPending' = Ports
    /\ killsIssued' = [p \in Ports |-> killsIssued[p] + 1]
    /\ bodyRuns' = bodyRuns + 1
    /\ UNCHANGED cdpShutdownCalls

gracefulShutdown_unguarded == shutdownBody("failure")

\* gracefulShutdown(): `if (this.isShuttingDown) return;` then the body
gracefulShutdown ==
    IF isShuttingDown THEN UNCHANGED sdVars ELSE shutdownBody("failure")

sigintHandler_unguarded == shutdownBody("sigint")

\* the SIGINT handler registered by setupCleanupHandlers
sigintHandler ==
    IF isShuttingDown THEN UNCHANGED sdVars ELSE shutdownBody("sigint")

\* process.exit(1) at the end of gracefulShutdown, process.exit(0) at the end
\* of the SIGINT handler
bodyExitCode == IF shutdownKind = "sigint" THEN 0 ELSE 1

countTrigger(source) ==
    triggers' = [triggers EXCEPT ![source] = @ + 1]

----------------------------------------------------------------------------
(* Startup: start() and the functions it awaits *)

\* checkPortsAvailable: `if (result) { ... throw new Error('Port ...') }`,
\* re-thrown by the catch block because the message includes 'Port'
checkPortThrows_swallowed(p) == FALSE

checkPortThrows(p) == portInUse[p]

probeReady_okOnly(outcome) == outcome = "ok"

\* `response.ok || response.status === 404`
probeReady(outcome) == outcome \in {"ok", "notFound"}

enterWaitForServer_skipped ==
    /\ pc' = "waitForMcpServer"
    /\ attempts' = 0
    /\ probe' = "inflight"

\* waitForServer(): attempts = 0 and the first fetch
enterWaitForServer ==
    /\ pc' = "waitForServer"
    /\ attempts' = 0
    /\ probe' = "inflight"

\* waitForMcpServer(): attempts = 0 and the first fetch
enterWaitForMcpServer ==
    /\ pc' = "waitForMcpServer"
    /\ attempts' = 0
    /\ probe' = "inflight"

\* startCDPMonitoringAsync(): startCDPMonitoring() runs up to
\* `await this.cdpMonitor.start()`; a throw of mkdirSync rejects its promise
\* and the catch callback calls gracefulShutdown()
startCDPMonitoringAsync(mkdirOk) ==
    IF mkdirOk
    THEN /\ cdpMonitor' = "created"
         /\ cdpPhase' = "starting"
         /\ UNCHANGED <<sdVars, triggers>>
    ELSE /\ cdpPhase' = "setupFailed"
         /\ UNCHANGED cdpMonitor
         /\ gracefulShutdown
         /\ countTrigger("cdp")

\* the end of start() once waitForMcpServer has returned: launch the
\* instrumentation without awaiting it, then report the session as ready
finishStart ==
    /\ \E mkdirOk \in BOOLEAN : startCDPMonitoringAsync(mkdirOk)
    /\ pc' = "running"
    /\ probe' = "none"
    /\ ready' = TRUE
    /\ UNCHANGED <<attempts, portIdx, handlersInstalled>>
    /\ UNCHANGED <<envVars, procVars, instVars, exitVars, log>>

\* start() fails: the rejection reaches the catch block of cli.ts
startThrows ==
    /\ cliCatch
    /\ UNCHANGED <<startVars, envVars, procVars, instVars, cdpVars, sdVars,
                   triggers, log>>

\* start(): spinner, then checkPortsAvailable spawns lsof for the first port
start ==
    /\ ~exited
    /\ pc = "idle"
    /\ pc' = "checkPorts"
    /\ portIdx' = 1
    /\ UNCHANGED <<attempts, probe, ready, waitResult, handlersInstalled>>
    /\ UNCHANGED <<envVars, procVars, instVars, cdpVars, sdVars, exitVars,
                   triggers, log>>

\* startMcpServer() up to the await of installMcpServerDeps: the installer is
\* spawned and its timeout armed
startMcpServer_install ==
    /\ installProcess' = "running"
    /\ installPromise' = "pending"
    /\ installTimer' = TRUE
    /\ UNCHANGED installExitCode
    /\ pc' = "installDeps"

\* after both ports were found free: pid file, setupCleanupHandlers,
\* startServer (spawn of the application), startMcpServer up to its await
afterPortCheck(mcpDirExists) ==
    /\ handlersInstalled' = TRUE
    /\ serverProcess' = "running"
    /\ IF mcpDirExists
       THEN /\ startMcpServer_install
            /\ UNCHANGED exitVars
       ELSE /\ cliCatch
            /\ UNCHANGED <<pc, instVars>>
    /\ UNCHANGED <<portIdx, attempts, probe, ready, waitResult>>
    /\ UNCHANGED <<envVars, serverExitCode, mcpServerProcess, mcpExitCode,
                   cdpVars, sdVars, triggers, log>>

\* the lsof child of checkPortsAvailable exits
checkPortsAvailable ==
    /\ ~exited
    /\ pc = "checkPorts"
    /\ IF checkPortThrows(ports[portIdx])
       THEN startThrows
       ELSE IF portIdx < Len(ports)
            THEN /\ portIdx' = portIdx + 1
                 /\ UNCHANGED <<pc, attempts, probe, ready, waitResult,
                                handlersInstalled>>
                 /\ UNCHANGED <<envVars, procVars, instVars, cdpVars, sdVars,
                                exitVars, triggers, log>>
            ELSE \E mcpDirExists \in BOOLEAN : afterPortCheck(mcpDirExists)

\* startMcpServer() after installMcpServerDeps resolved: spawn the companion;
\* start() then enters waitForServer
afterInstall ==
    /\ mcpServerProcess' = "running"
    /\ enterWaitForServer
    /\ UNCHANGED <<exitVars>>

installExit_resolvesAlways(code) ==
    /\ ~exited
    /\ installProcess = "running"
    /\ installProcess' = "exited"
    /\ installExitCode' = code
    /\ installTimer' = FALSE
    /\ installPromise' = "resolved"
    /\ afterInstall
    /\ UNCHANGED <<portIdx, ready, waitResult, handlersInstalled>>
    /\ UNCHANGED <<envVars, serverProcess, serverExitCode, mcpExitCode,
                   cdpVars, sdVars, triggers, log>>

\* installProcess.on('exit'): clearTimeout, resolve on code 0, reject otherwise
installExit(code) ==
    /\ ~exited
    /\ installProcess = "running"
    /\ installProcess' = "exited"
    /\ installExitCode' = code
    /\ installTimer' = FALSE
    /\ IF code = 0
       THEN /\ installPromise' = "resolved"
            /\ afterInstall
       ELSE /\ installPromise' = "rejected"
            /\ cliCatch
            /\ UNCHANGED <<pc, attempts, probe, mcpServerProcess>>
    /\ UNCHANGED <<portIdx, ready, waitResult, handlersInstalled>>
    /\ UNCHANGED <<envVars, serverProcess, serverExitCode, mcpExitCode,
                   cdpVars, sdVars, triggers, log>>

\* installProcess.on('error'): clearTimeout and reject
installError ==
    /\ ~exited
    /\ installProcess = "running"
    /\ installProcess' = "error"
    /\ installTimer' = FALSE
    /\ UNCHANGED installExitCode
    /\ installPromise' = "rejected"
    /\ cliCatch
    /\ UNCHANGED <<startVars, envVars, procVars, cdpVars, sdVars, triggers, log>>

\* the 3 minute timeout fires: SIGKILL the installer and reject
installTimeout ==
    /\ ~exited
    /\ installTimer
    /\ installProcess' = "killed"
    /\ installTimer' = FALSE
    /\ UNCHANGED installExitCode
    /\ installPromise' = "rejected"
    /\ cliCatch
    /\ UNCHANGED <<startVars, envVars, procVars, cdpVars, sdVars, triggers, log>>

waitForServer_exhausted_throws ==
    /\ waitResult' = [waitResult EXCEPT !["server"] = "exhausted"]
    /\ cliCatch
    /\ UNCHANGED <<pc, portIdx, attempts, probe, ready, handlersInstalled>>
    /\ UNCHANGED <<envVars, procVars, instVars, cdpVars, sdVars, triggers, log>>

\* waitForServer falls out of its loop: "Continue anyway if health check fails"
waitForServer_exhausted ==
    /\ waitResult' = [waitResult EXCEPT !["server"] = "exhausted"]
    /\ enterWaitForMcpServer
    /\ UNCHANGED <<portIdx, ready, handlersInstalled>>
    /\ UNCHANGED <<envVars, procVars, instVars, cdpVars, sdVars, exitVars,
                   triggers, log>>

waitForMcpServer_exhausted_continues ==
    /\ waitResult' = [waitResult EXCEPT !["mcp"] = "exhausted"]
    /\ finishStart

\* waitForMcpServer falls out of its loop: throw new Error('MCP server failed
\* to start ...')
waitForMcpServer_exhausted ==
    /\ waitResult' = [waitResult EXCEPT !["mcp"] = "exhausted"]
    /\ cliCatch
    /\ UNCHANGED <<pc, portIdx, attempts, probe, ready, handlersInstalled>>
    /\ UNCHANGED <<envVars, procVars, instVars, cdpVars, sdVars, triggers, log>>

\* the fetch of waitForServer settles
waitForServer_probe(outcome) ==
    /\ ~exited
    /\ pc = "waitForServer"
    /\ probe = "inflight"
    /\ IF probeReady(outcome)
       THEN /\ waitResult' = [waitResult EXCEPT !["server"] = "ready"]
            /\ enterWaitForMcpServer
       ELSE /\ attempts' = attempts + 1
            /\ probe' = "sleeping"
            /\ UNCHANGED <<pc, waitResult>>
    /\ UNCHANGED <<portIdx, ready, handlersInstalled>>
    /\ UNCHANGED <<envVars, procVars, instVars, cdpVars, sdVars, exitVars,
                   triggers, log>>

\* the 1000 ms timer of waitForServer fires: test the loop condition
waitForServer_timer ==
    /\ ~exited
    /\ pc = "waitForServer"
    /\ probe = "sleeping"
    /\ IF attempts < maxAttempts
       THEN /\ probe' = "inflight"
            /\ UNCHANGED <<pc, attempts, portIdx, ready, waitResult,
                           handlersInstalled>>
            /\ UNCHANGED <<envVars, procVars, instVars, cdpVars, sdVars,
                           exitVars, triggers, log>>
       ELSE waitForServer_exhausted

\* the fetch of waitForMcpServer settles
waitForMcpServer_probe(outcome) ==
    /\ ~exited
    /\ pc = "waitForMcpServer"
    /\ probe = "inflight"
    /\ IF probeReady(outcome)
       THEN /\ waitResult' = [waitResult EXCEPT !["mcp"] = "ready"]
            /\ finishStart
       ELSE /\ attempts' = attempts + 1
            /\ probe' = "sleeping"
            /\ UNCHANGED <<pc, portIdx, ready, waitResult, handlersInstalled>>
            /\ UNCHANGED <<envVars, procVars, instVars, cdpVars, sdVars,
                           exitVars, triggers, log>>

\* the 1000 ms timer of waitForMcpServer fires: test the loop condition
waitForMcpServer_timer ==
    /\ ~exited
    /\ pc = "waitForMcpServer"
    /\ probe = "sleeping"
    /\ IF attempts < maxAttempts
       THEN /\ probe' = "inflight"
            /\ UNCHANGED <<pc, attempts, portIdx, ready, waitResult,
                           handlersInstalled>>
            /\ UNCHANGED <<envVars, procVars, instVars, cdpVars, sdVars,
                           exitVars, triggers, log>>
       ELSE waitForMcpServer_exhausted

----------------------------------------------------------------------------
(* Exit handlers of the managed processes *)

isFatalExit_without143(code) == code # 1 /\ code # 130

\* `const isFatalExit = code !== 1 && code !== 130 && code !== 143`
isFatalExit(code) == code # 1 /\ code # 130 /\ code # 143

\* the text the exit handlers append to the log
exitMessage(who, code) == <<who \o " process exited with code " \o ToString(code)>>

\* serverProcess.on('exit'): ignored while shutting down; a code other than 0
\* and null is logged; a fatal one calls gracefulShutdown()
serverProcess_onExit(code) ==
    IF isShuttingDown
    THEN UNCHANGED <<sdVars, triggers, log>>
    ELSE IF code # 0 /\ code # NullCode
         THEN /\ log' = Logger_log(log, "SERVER", exitMessage("Server", code))
              /\ IF isFatalExit(code)
                 THEN gracefulShutdown /\ countTrigger("serverExit")
                 ELSE UNCHANGED <<sdVars, triggers>>
         ELSE UNCHANGED <<sdVars, triggers, log>>

\* the application process exits with `code`
serverExit(code) ==
    /\ ~exited
    /\ serverProcess = "running"
    /\ serverProcess' = "exited"
    /\ serverExitCode' = code
    /\ serverProcess_onExit(code)
    /\ UNCHANGED <<startVars, envVars, mcpServerProcess, mcpExitCode,
                   instVars, cdpVars, exitVars>>

\* mcpServerProcess.on('exit'): a code other than 0 and null is logged
mcpServerProcess_onExit(code) ==
    /\ IF code # 0 /\ code # NullCode
       THEN log' = Logger_log(log, "SERVER", exitMessage("MCP server", code))
       ELSE UNCHANGED log
    /\ UNCHANGED <<sdVars, triggers>>

\* the companion process exits with `code`
mcpExit(code) ==
    /\ ~exited
    /\ mcpServerProcess = "running"
    /\ mcpServerProcess' = "exited"
    /\ mcpExitCode' = code
    /\ mcpServerProcess_onExit(code)
    /\ UNCHANGED <<startVars, envVars, serverProcess, serverExitCode,
                   instVars, cdpVars, exitVars>>

----------------------------------------------------------------------------
(* Instrumentation: the continuation of startCDPMonitoring *)

\* the catch callback of startCDPMonitoringAsync
startCDPMonitoringAsync_catch_ignored ==
    UNCHANGED <<sdVars, triggers>>

startCDPMonitoringAsync_catch ==
    /\ gracefulShutdown
    /\ countTrigger("cdp")

\* `await this.cdpMonitor.start()` settles
cdpStartSettles(ok) ==
    /\ ~exited
    /\ cdpPhase = "starting"
    /\ IF ok
       THEN /\ log' = Logger_log(log, "BROWSER",
                        <<"[CDP] Chrome launched with DevTools Protocol monitoring">>)
            /\ cdpPhase' = "navigating"
            /\ UNCHANGED <<sdVars, triggers>>
       ELSE /\ log' = Logger_log(log, "BROWSER",
                        <<"[CDP ERROR] Failed to start CDP monitoring">>)
            /\ cdpPhase' = "failed"
            /\ startCDPMonitoringAsync_catch
    /\ UNCHANGED <<startVars, envVars, procVars, instVars, cdpMonitor, exitVars>>

\* `await this.cdpMonitor.navigateToApp(port)` settles
cdpNavigateSettles(ok) ==
    /\ ~exited
    /\ cdpPhase = "navigating"
    /\ IF ok
       THEN /\ log' = Logger_log(log, "BROWSER", <<"[CDP] Navigated to the app">>)
            /\ cdpPhase' = "done"
            /\ UNCHANGED <<sdVars, triggers>>
       ELSE /\ log' = Logger_log(log, "BROWSER",
                        <<"[CDP ERROR] Failed to start CDP monitoring">>)
            /\ cdpPhase' = "failed"
            /\ startCDPMonitoringAsync_catch
    /\ UNCHANGED <<startVars, envVars, procVars, instVars, cdpMonitor, exitVars>>

----------------------------------------------------------------------------
(* Shutdown: the interrupt signal and the continuation of the body *)

\* SIGINT is delivered: the registered handler runs; before
\* setupCleanupHandlers the signal's default action ends the process
sigint ==
    /\ ~exited
    /\ pc # "idle"
    /\ triggers["sigint"] < MaxSigints
    /\ IF handlersInstalled
       THEN /\ sigintHandler
            /\ countTrigger("sigint")
            /\ UNCHANGED exitVars
       ELSE /\ processExit(130)
            /\ UNCHANGED <<sdVars, triggers>>
    /\ UNCHANGED <<startVars, envVars, procVars, instVars, cdpVars, log>>

afterKills_skipsMonitor ==
    /\ processExit(bodyExitCode)
    /\ UNCHANGED <<sdPc, cdpShutdownCalls>>

\* after `await Promise.all([killPortProcess(..), killPortProcess(..)])`:
\* `if (this.cdpMonitor)` call its shutdown(), else exit
afterKills ==
    IF cdpMonitor # "null"
    THEN /\ sdPc' = "closingCdp"
         /\ cdpShutdownCalls' = cdpShutdownCalls + 1
         /\ UNCHANGED exitVars
    ELSE /\ processExit(bodyExitCode)
         /\ UNCHANGED <<sdPc, cdpShutdownCalls>>

\* killProcess.on('exit') of the kill subprocess for port p, whatever its code
killExit(p) ==
    /\ ~exited
    /\ sdPc = "killing"
    /\ p \in killPending
    /\ killPending' = killPending \ {p}
    /\ IF killPending' = {}
       THEN afterKills
       ELSE UNCHANGED <<sdPc, cdpShutdownCalls, exitVars>>
    /\ UNCHANGED <<isShuttingDown, shutdownKind, killsIssued, bodyRuns>>
    /\ UNCHANGED <<startVars, envVars, procVars, instVars, cdpVars, triggers, log>>

cdpShutdownSettles_throwEscapes(ok) ==
    /\ ~exited
    /\ sdPc = "closingCdp"
    /\ IF ok
       THEN processExit(bodyExitCode) /\ UNCHANGED sdVars
       ELSE /\ sdPc' = "failed"
            /\ UNCHANGED <<isShuttingDown, shutdownKind, killPending, killsIssued,
                           bodyRuns, cdpShutdownCalls, exitVars>>
    /\ UNCHANGED <<startVars, envVars, procVars, instVars, cdpVars, triggers, log>>

\* `await this.cdpMonitor.shutdown()` settles; a throw is caught; then
\* process.exit
cdpShutdownSettles(ok) ==
    /\ ~exited
    /\ sdPc = "closingCdp"
    /\ processExit(bodyExitCode)
    /\ UNCHANGED <<startVars, envVars, procVars, instVars, cdpVars, sdVars,
                   triggers, log>>

----------------------------------------------------------------------------
(* The output pipeline: format parsers, error detectors, OutputProcessor *)

(* A string is a sequence of symbols.  A symbol is one character (" ", the   *)
(* newline, the letter "x") or a fixed run of non-whitespace characters that *)
(* the patterns of the code look for.                                        *)

\* the characters \d matches
Digits == {"0", "1", "2", "3", "4", "5", "6", "7", "8", "9"}

\* the lower-case letters the inputs are written with, and
\* String.prototype.toUpperCase on them
UpperOf == [c \in {"a", "b", "d", "e", "i", "p", "w", "x"} |->
               CASE c = "a" -> "A" [] c = "b" -> "B" [] c = "d" -> "D"
                 [] c = "e" -> "E" [] c = "i" -> "I" [] c = "p" -> "P"
                 [] c = "w" -> "W" [] c = "x" -> "X"]

\* the characters \w matches: letters, digits, the underscore (a symbol that
\* stands for a word counts as its letters)
WordChars == DOMAIN UpperOf \cup {UpperOf[c] : c \in DOMAIN UpperOf} \cup Digits
                 \cup {"_", "EADDRINUSE", "LoadError", "warning"}

\* a Foreman line up to and including the pipe, with process name "web"
ForemanPrefix == <<"1", "0", ":", "2", "3", ":", "4", "5", " ",
                   "w", "e", "b", ".", "1", " ", "|">>

Chars == {"x", " ", "\n", "EADDRINUSE", "LoadError", "warning"}

\* what a chunk is put together from: single symbols and the Foreman prefix
Pieces == {<<c>> : c \in Chars} \cup {ForemanPrefix}

\* the characters String.prototype.trim removes
Whitespace == {" ", "\n"}

RECURSIVE concat(_)
concat(ps) == IF ps = <<>> THEN <<>> ELSE Head(ps) \o concat(Tail(ps))

\* the chunks a process() call is given
Texts == {concat(ps) : ps \in UNION {[1..n -> Pieces] : n \in 0..MaxTextLen}}

FormatParsers == {"standard", "foreman", "docker-compose", "pm2"}
ErrorDetectors == {"base", "rails", "nextjs", "django", "express"}

minOf(S) == CHOOSE x \in S : \A y \in S : x <= y
maxOf(S) == CHOOSE x \in S : \A y \in S : x >= y

\* String.prototype.trim
trim(s) ==
    LET kept == {i \in 1..Len(s) : s[i] \notin Whitespace}
    IN  IF kept = {} THEN <<>> ELSE SubSeq(s, minOf(kept), maxOf(kept))

\* String.prototype.split(sep): the pieces between the separators, empty
\* pieces included
RECURSIVE split(_, _)
split(s, sep) ==
    LET at == {i \in 1..Len(s) : s[i] = sep}
    IN  IF at = {}
        THEN <<s>>
        ELSE <<SubSeq(s, 1, minOf(at) - 1)>>
                 \o split(SubSeq(s, minOf(at) + 1, Len(s)), sep)

filterBoolean_keepsAll(lines) == lines

\* Array.prototype.filter(Boolean) on strings: drops the empty string only
filterBoolean(lines) == SelectSeq(lines, LAMBDA l : l # <<>>)

\* `text.trim().split('\n').filter(Boolean)` behind the guard
\* `if (!text || !text.trim()) return []`
linesOf(t) ==
    IF t = <<>> \/ trim(t) = <<>>
    THEN <<>>
    ELSE filterBoolean(split(trim(t), "\n"))

\* StandardFormatParser.parse
StandardFormatParser_parse(t) ==
    LET lines == linesOf(t)
    IN  [i \in 1..Len(lines) |-> [formatted |-> lines[i], message |-> lines[i]]]

toUpperCase_identity(s) == s

\* String.prototype.toUpperCase
toUpperCase(s) ==
    [i \in 1..Len(s) |-> IF s[i] \in DOMAIN UpperOf THEN UpperOf[s[i]] ELSE s[i]]

\* parseInt(digits, 10) of a run of digits
RECURSIVE parseInt(_)
parseInt(ds) ==
    IF ds = <<>>
    THEN 0
    ELSE 10 * parseInt(SubSeq(ds, 1, Len(ds) - 1))
           + (CHOOSE v \in 0..9 : ToString(v) = ds[Len(ds)])

\* the length of the longest run of characters of S that starts at s[i]: what
\* a greedy S+ or S* consumes there
spanOf(s, i, S) ==
    maxOf({n \in 0..(Len(s) + 1 - i) : \A k \in 0..(n - 1) : s[i + k] \in S})

\* the same for a negated class
spanOfNot(s, i, S) ==
    maxOf({n \in 0..(Len(s) + 1 - i) : \A k \in 0..(n - 1) : s[i + k] \notin S})

\* s.replace(/<sep>\d+$/, ''): drops a final separator-and-digits suffix
stripInstanceSuffix(s, sep) ==
    LET n == maxOf({m \in 0..Len(s) :
                       \A k \in 1..m : s[Len(s) + 1 - k] \in Digits})
    IN  IF n >= 1 /\ Len(s) > n /\ s[Len(s) - n] = sep
        THEN SubSeq(s, 1, Len(s) - n - 1)
        ELSE s

\* \d{2}:\d{2}:\d{2} at s[i]
hmsAt(s, i) ==
    /\ i + 7 <= Len(s)
    /\ \A k \in {0, 1, 3, 4, 6, 7} : s[i + k] \in Digits
    /\ s[i + 2] = ":"
    /\ s[i + 5] = ":"

\* line.match(FOREMAN_REGEX), FOREMAN_REGEX =
\* /^(\d{2}:\d{2}:\d{2}(?:\.\d{3})?)\s+([\w-]+)\.(\d+)\s+\|\s*(.*)$/
\* No class overlaps the character that has to follow it, so every
\* quantifier consumes its longest run.
FOREMAN_REGEX_exec(line) ==
    LET at(i, ch) == i <= Len(line) /\ line[i] = ch
        ms      == /\ at(9, ".")
                   /\ 12 <= Len(line)
                   /\ \A k \in 10..12 : line[k] \in Digits
        tsEnd   == IF ms THEN 12 ELSE 8
        ws1     == spanOf(line, tsEnd + 1, Whitespace)
        nameAt  == tsEnd + 1 + ws1
        nameLen == spanOf(line, nameAt, WordChars \cup {"-"})
        dotAt   == nameAt + nameLen
        instLen == spanOf(line, dotAt + 1, Digits)
        ws2At   == dotAt + 1 + instLen
        ws2     == spanOf(line, ws2At, Whitespace)
        pipeAt  == ws2At + ws2
        ws3     == spanOf(line, pipeAt + 1, Whitespace)
    IN  IF /\ hmsAt(line, 1)
           /\ ws1 >= 1
           /\ nameLen >= 1
           /\ at(dotAt, ".")
           /\ instLen >= 1
           /\ ws2 >= 1
           /\ at(pipeAt, "|")
        THEN [matched   |-> TRUE,
              timestamp |-> SubSeq(line, 1, tsEnd),
              process   |-> SubSeq(line, nameAt, dotAt - 1),
              instance  |-> SubSeq(line, dotAt + 1, ws2At - 1),
              message   |-> SubSeq(line, pipeAt + 1 + ws3, Len(line))]
        ELSE [matched |-> FALSE]

foremanMatch(line) == FOREMAN_REGEX_exec(line).matched

ForemanFormatParser_fallback(line) == [formatted |-> line, message |-> line]

\* ForemanFormatParser.parse
ForemanFormatParser_parse(t) ==
    LET lines == linesOf(t)
        parseLine(line) ==
            LET m == FOREMAN_REGEX_exec(line)
            IN  IF m.matched
                THEN [formatted   |-> <<"[">> \o toUpperCase(m.process)
                                         \o <<"]", " ">> \o trim(m.message),
                      message     |-> trim(m.message),
                      processName |-> m.process,
                      metadata    |-> [timestamp |-> m.timestamp,
                                       instance  |-> parseInt(m.instance)]]
                ELSE ForemanFormatParser_fallback(line)
    IN  [i \in 1..Len(lines) |-> parseLine(lines[i])]

\* line.match(DOCKER_REGEX), DOCKER_REGEX = /^(\S+)\s+\|\s+(.*)$/
DOCKER_REGEX_exec(line) ==
    LET cLen   == spanOfNot(line, 1, Whitespace)
        ws1    == spanOf(line, cLen + 1, Whitespace)
        pipeAt == cLen + 1 + ws1
        ws2    == spanOf(line, pipeAt + 1, Whitespace)
    IN  IF /\ cLen >= 1
           /\ ws1 >= 1
           /\ pipeAt <= Len(line)
           /\ line[pipeAt] = "|"
           /\ ws2 >= 1
        THEN [matched   |-> TRUE,
              container |-> SubSeq(line, 1, cLen),
              message   |-> SubSeq(line, pipeAt + 1 + ws2, Len(line))]
        ELSE [matched |-> FALSE]

dockerMatch(line) == DOCKER_REGEX_exec(line).matched

DockerComposeFormatParser_fallback(line) == [formatted |-> line, message |-> line]

\* container.replace(/_\d+$/, '').toUpperCase()
containerName(container) == toUpperCase(stripInstanceSuffix(container, "_"))

\* DockerComposeFormatParser.parse
DockerComposeFormatParser_parse(t) ==
    LET lines == linesOf(t)
        parseLine(line) ==
            LET m == DOCKER_REGEX_exec(line)
            IN  IF m.matched
                THEN [formatted   |-> <<"[">> \o containerName(m.container)
                                         \o <<"]", " ">> \o trim(m.message),
                      message     |-> trim(m.message),
                      processName |-> m.container,
                      metadata    |-> [container |-> m.container]]
                ELSE DockerComposeFormatParser_fallback(line)
    IN  [i \in 1..Len(lines) |-> parseLine(lines[i])]

\* line.match(PM2_REGEX), PM2_REGEX =
\* /^(\d{4}-\d{2}-\d{2}\s+\d{2}:\d{2}:\d{2})\s+\|\s+([^|]+)\s+\|\s+(.*)$/
\* [^|]+ also matches whitespace: between the two pipes there must be a
\* whitespace character, at least one further character, and a whitespace
\* character; the \s+ before the group takes the longest run that leaves the
\* group one character.
PM2_REGEX_exec(line) ==
    LET date    == /\ 10 <= Len(line)
                   /\ \A k \in {1, 2, 3, 4, 6, 7, 9, 10} : line[k] \in Digits
                   /\ line[5] = "-"
                   /\ line[8] = "-"
        ws1     == spanOf(line, 11, Whitespace)
        timeAt  == 11 + ws1
        ws2     == spanOf(line, timeAt + 8, Whitespace)
        pipe1   == timeAt + 8 + ws2
        segLen  == spanOfNot(line, pipe1 + 1, {"|"})
        pipe2   == pipe1 + 1 + segLen
        lead    == minOf({spanOf(line, pipe1 + 1, Whitespace), segLen - 2})
        ws3     == spanOf(line, pipe2 + 1, Whitespace)
    IN  IF /\ date
           /\ ws1 >= 1
           /\ hmsAt(line, timeAt)
           /\ ws2 >= 1
           /\ pipe1 <= Len(line)
           /\ line[pipe1] = "|"
           /\ segLen >= 3
           /\ line[pipe1 + 1] \in Whitespace
           /\ line[pipe2 - 1] \in Whitespace
           /\ pipe2 <= Len(line)
           /\ ws3 >= 1
        THEN [matched   |-> TRUE,
              timestamp |-> SubSeq(line, 1, timeAt + 7),
              process   |-> SubSeq(line, pipe1 + 1 + lead, pipe2 - 2),
              message   |-> SubSeq(line, pipe2 + 1 + ws3, Len(line))]
        ELSE [matched |-> FALSE]

pm2Match(line) == PM2_REGEX_exec(line).matched

PM2FormatParser_fallback_trimmed(line) ==
    [formatted |-> trim(line), message |-> trim(line)]

PM2FormatParser_fallback(line) == [formatted |-> line, message |-> line]

\* PM2FormatParser.parse
PM2FormatParser_parse(t) ==
    LET lines == linesOf(t)
        parseLine(line) ==
            LET m == PM2_REGEX_exec(line)
            IN  IF m.matched
                THEN [formatted   |-> <<"[">>
                          \o toUpperCase(stripInstanceSuffix(trim(m.process), "-"))
                          \o <<"]", " ">> \o trim(m.message),
                      message     |-> trim(m.message),
                      processName |-> trim(m.process),
                      metadata    |-> [timestamp |-> m.timestamp]]
                ELSE PM2FormatParser_fallback(line)
    IN  [i \in 1..Len(lines) |-> parseLine(lines[i])]

\* this.formatParser.parse(text)
FormatParser_parse(fp, t) ==
    CASE fp = "foreman"        -> ForemanFormatParser_parse(t)
      [] fp = "docker-compose" -> DockerComposeFormatParser_parse(t)
      [] fp = "pm2"            -> PM2FormatParser_parse(t)
      [] OTHER                 -> StandardFormatParser_parse(t)

\* The lines the format parsers are given: a line start (what stands before
\* the first separator), a separator and a remainder, in every combination.
HMS == <<"1", "0", ":", "2", "3", ":", "4", "5">>
YMD == <<"2", "0", "2", "4", "-", "0", "1", "-", "1", "5">>

LineStarts ==
    { HMS \o <<" ", "w", "e", "b", ".", "1">>,
      HMS \o <<".", "1", "2", "3", " ", "w", "e", "b", "-", "a", "p", "i", "_", "2", ".", "1", "0">>,
      HMS \o <<" ", "w", "e", "b">>,
      <<"1", ":", "2", "3", ":", "4", "5", " ", "w", "e", "b", ".", "1">>,
      <<"w", "e", "b", "_", "1">>,
      <<"w", "e", "b", "-", "1">>,
      <<"d", "b">>,
      <<"w", "e", "b", "_", "1", "_", "2", "0">>,
      YMD \o <<" ">> \o HMS \o <<" ", "|", " ", "a", "p", "i", "-", "0">>,
      YMD \o <<" ">> \o HMS \o <<" ", "|", " ", "w", "e", "b", "_", "1">>,
      YMD \o <<" ">> \o HMS \o <<" ", "|", " ">>,
      <<>> }

Separators == { <<" ", "|", " ">>, <<" ", "|">>, <<"|", " ">>, <<"|">> }

Remainders == { <<>>, <<"x">>, <<" ", "x", " ">>, <<"x", " ", "|", " ", "x">> }

FormatLines ==
    {a \o b \o c : a \in LineStarts, b \in Separators, c \in Remainders}

\* the lines that may follow the first line of a chunk
FollowingLines ==
    { <<"x">>, <<" ", "x">>, HMS \o <<" ", "w", "e", "b", ".", "1", " ", "|", " ", "x">> }

RECURSIVE joinLines(_)
joinLines(ls) ==
    IF ls = <<>> THEN <<>> ELSE <<"\n">> \o Head(ls) \o joinLines(Tail(ls))

\* the chunks the format parsers are given: a line, then up to
\* MaxFollowingLines further lines
FormatTexts ==
    {l \o joinLines(fs) :
        l \in FormatLines,
        fs \in UNION {[1..n -> FollowingLines] : n \in 0..MaxFollowingLines}}

\* pattern.test(message) for a pattern that is one symbol
contains(message, symbol) == \E i \in 1..Len(message) : message[i] = symbol

\* pattern.test(message) / message.includes(s) for patterns that the symbols
\* of S, and no others, spell
containsAny(message, S) == \E i \in 1..Len(message) : message[i] \in S

\* /p(?!.*warning)/.test(message) for a pattern p that the symbols of S spell
containsNotBeforeWarning(message, S) ==
    \E i \in 1..Len(message) :
        /\ message[i] \in S
        /\ \A j \in (i + 1)..Len(message) : message[j] # "warning"

\* The symbols the messages given to the detectors are written with.  Each is
\* a literal piece of text; a pattern of the code is modelled by the set of
\* the symbols it matches in (no pattern matches across two symbols).
DetectSymbols ==
    {"EADDRINUSE", "EACCES", "ENOENT", "ECONNREFUSED", "FATAL ERROR:",
     "Error: Cannot find module", "warning", "DEPRECATION WARNING",
     "Precompiling assets", "LoadError", "TypeError:", "Compiling",
     "generateStaticParams", ".next", "INFO:", "nodemon", "x"}

\* the messages the detectors are given
DetectTexts == UNION {[1..n -> DetectSymbols] : n \in 0..MaxMessageLen}

\* BaseErrorDetector.isCritical: the early return on /warning/i, /WARN/ and
\* /deprecated/i, then the critical patterns: /EADDRINUSE/, /EACCES/,
\* /ENOENT/, /ECONNREFUSED/, /FATAL/, /Cannot find module(?!.*warning)/
BaseErrorDetector_isCritical(message) ==
    IF containsAny(message, {"warning", "DEPRECATION WARNING"})
    THEN FALSE
    ELSE \/ containsAny(message, {"EADDRINUSE", "EACCES", "ENOENT",
                                  "ECONNREFUSED", "FATAL ERROR:"})
         \/ containsNotBeforeWarning(message, {"Error: Cannot find module"})

\* RailsErrorDetector.isCritical: super.isCritical first, then the early
\* return on /DEPRECATION WARNING/i and /Precompiling assets/i, then the
\* Rails patterns (/LoadError/)
RailsErrorDetector_isCritical(message) ==
    IF BaseErrorDetector_isCritical(message)
    THEN TRUE
    ELSE IF containsAny(message, {"DEPRECATION WARNING", "Precompiling assets"})
         THEN FALSE
         ELSE containsAny(message, {"LoadError"})

\* NextJsErrorDetector.isCritical: super.isCritical first, then the two
\* special cases ('FATAL' without 'generateStaticParams', 'Cannot find
\* module' without '.next'), then nonCriticalPatterns (/generateStaticParams/,
\* /\.next/, /Compiling/), then criticalPatterns (/TypeError:/,
\* /Error: Cannot find module/, /FATAL ERROR:/)
NextJsErrorDetector_isCritical(message) ==
    IF BaseErrorDetector_isCritical(message)
    THEN TRUE
    ELSE IF /\ containsAny(message, {"FATAL ERROR:"})
            /\ ~containsAny(message, {"generateStaticParams"})
         THEN TRUE
         ELSE IF /\ containsAny(message, {"Error: Cannot find module"})
                 /\ ~containsAny(message, {".next"})
              THEN TRUE
              ELSE IF containsAny(message, {"generateStaticParams", ".next",
                                            "Compiling"})
                   THEN FALSE
                   ELSE containsAny(message, {"TypeError:",
                                              "Error: Cannot find module",
                                              "FATAL ERROR:"})

\* DjangoErrorDetector.isCritical: super.isCritical first, then
\* nonCriticalPatterns (/INFO:/), then criticalPatterns (/TypeError:/)
DjangoErrorDetector_isCritical(message) ==
    IF BaseErrorDetector_isCritical(message)
    THEN TRUE
    ELSE IF containsAny(message, {"INFO:"})
         THEN FALSE
         ELSE containsAny(message, {"TypeError:"})

\* ExpressErrorDetector.isCritical: super.isCritical first, then
\* nonCriticalPatterns (/nodemon/), then criticalPatterns (/Error:/,
\* /TypeError:/, /Cannot find module/, /FATAL ERROR/)
ExpressErrorDetector_isCritical(message) ==
    IF BaseErrorDetector_isCritical(message)
    THEN TRUE
    ELSE IF containsAny(message, {"nodemon"})
         THEN FALSE
         ELSE containsAny(message, {"TypeError:", "Error: Cannot find module",
                                    "FATAL ERROR:"})

\* this.errorDetector.isCritical(message)
ErrorDetector_isCritical(ed, message) ==
    CASE ed = "rails"   -> RailsErrorDetector_isCritical(message)
      [] ed = "nextjs"  -> NextJsErrorDetector_isCritical(message)
      [] ed = "django"  -> DjangoErrorDetector_isCritical(message)
      [] ed = "express" -> ExpressErrorDetector_isCritical(message)
      [] OTHER          -> BaseErrorDetector_isCritical(message)

entryIsCritical_anyStream(line, isErr, ed) ==
    ErrorDetector_isCritical(ed, line.message)

\* const isCritical = isError && this.errorDetector.isCritical(line.message)
entryIsCritical(line, isErr, ed) ==
    isErr /\ ErrorDetector_isCritical(ed, line.message)

\* formatted: isError ? `ERROR: ${line.formatted}` : line.formatted
entryFormatted(line, isErr) ==
    IF isErr THEN <<"ERROR: ">> \o line.formatted ELSE line.formatted

entryRawMessage_formatted(line) == line.formatted

\* entry.rawMessage = line.message
entryRawMessage(line) == line.message

\* the body of the map callback of process(): the optional properties
\* isCritical and rawMessage exist only on a critical entry
buildEntry(line, isErr, ed) ==
    IF entryIsCritical(line, isErr, ed)
    THEN [formatted  |-> entryFormatted(line, isErr),
          isCritical |-> TRUE,
          rawMessage |-> entryRawMessage(line)]
    ELSE [formatted  |-> entryFormatted(line, isErr)]

OutputProcessor_process_reversed(lines, isErr, ed) ==
    [i \in 1..Len(lines) |-> buildEntry(lines[Len(lines) + 1 - i], isErr, ed)]

\* return parsedLines.map(line => ...)
OutputProcessor_process(lines, isErr, ed) ==
    [i \in 1..Len(lines) |-> buildEntry(lines[i], isErr, ed)]

\* one call of process(text, isError)
process ==
    /\ ~processed
    /\ processed' = TRUE
    /\ parsedLines' = FormatParser_parse(formatParser, text)
    /\ entries' = OutputProcessor_process(parsedLines', isError, errorDetector)
    /\ UNCHANGED <<text, isError, formatParser, errorDetector, portInUse, factVars, fsVars, ioVars>>
    /\ UNCHANGED <<startVars, procVars, instVars, cdpVars, sdVars, exitVars,
                   triggers, log>>

----------------------------------------------------------------------------
(* Log files: createPersistentLogFile, pruneOldLogs, the alias *)

(* A log file is named by the number of the session start that created it   *)
(* (its name carries the start's timestamp).  The directory is kept as the  *)
(* sequence of its files sorted by modification time, most recent first,    *)
(* which is the order pruneOldLogs sorts them into.                          *)

filesIn(dir) == {dir[i] : i \in 1..Len(dir)}

\* writeFileSync / appendFileSync on a path: the file exists afterwards and
\* is the most recently modified one
written(dir, f) == <<f>> \o SelectSeq(dir, LAMBDA g : g # f)

\* unlinkSync of a file
unlinked(dir, f) == SelectSeq(dir, LAMBDA g : g # f)

pruneOldLogs_keepsTen(dir) ==
    IF Len(dir) >= 10 THEN SubSeq(dir, 1, 10) ELSE dir

\* pruneOldLogs: `if (files.length >= 10)` unlink `files.slice(9)`
pruneOldLogs(dir) ==
    IF Len(dir) >= 10 THEN SubSeq(dir, 1, 9) ELSE dir

\* existsSync(symlinkPath): stat follows the link, so it is true only if the
\* alias exists and the file it points at exists
existsSync_symlinkPath(dir) == symlink # 0 /\ symlink \in filesIn(dir)

\* the try block of createLogFileInDir: unlink the alias if existsSync saw it,
\* then symlinkSync, which throws EEXIST when the alias is still there; the
\* catch block only warns
updateSymlink(dir, logFile) ==
    IF existsSync_symlinkPath(dir) \/ symlink = 0
    THEN symlink' = logFile
    ELSE symlink' = symlink

\* createPersistentLogFile -> createLogFileInDir: prune, create the new file,
\* point the alias at it
createPersistentLogFile ==
    /\ sessionStarts < MaxStarts
    /\ sessionStarts' = sessionStarts + 1
    /\ logDirFiles' = written(pruneOldLogs(logDirFiles), sessionStarts')
    /\ updateSymlink(logDirFiles', sessionStarts')
    /\ UNCHANGED <<lateAppends, externalUnlinks, portInUse, factVars, parseVars, ioVars>>
    /\ UNCHANGED <<startVars, procVars, instVars, cdpVars, sdVars, exitVars,
                   triggers, log>>

\* Logger.log of a session started earlier that is still running:
\* appendFileSync creates the file if it was removed in the meantime
lateAppend(f) ==
    /\ f \in 1..sessionStarts
    /\ lateAppends < MaxLateAppends
    /\ lateAppends' = lateAppends + 1
    /\ logDirFiles' = written(logDirFiles, f)
    /\ UNCHANGED <<symlink, sessionStarts, externalUnlinks, portInUse, factVars, parseVars, ioVars>>
    /\ UNCHANGED <<startVars, procVars, instVars, cdpVars, sdVars, exitVars,
                   triggers, log>>

\* the environment removes a log file
externalUnlink(f) ==
    /\ f \in filesIn(logDirFiles)
    /\ externalUnlinks < MaxExternalUnlinks
    /\ externalUnlinks' = externalUnlinks + 1
    /\ logDirFiles' = unlinked(logDirFiles, f)
    /\ UNCHANGED <<symlink, sessionStarts, lateAppends, portInUse, factVars, parseVars, ioVars>>
    /\ UNCHANGED <<startVars, procVars, instVars, cdpVars, sdVars, exitVars,
                   triggers, log>>

----------------------------------------------------------------------------
(* Output of the application and events of the browser, while supervised *)

\* what the application writes to stdout and to stderr in one session; the
\* pipe delivers it in chunks that need not end at a line end
stdoutStream == <<"out1", "\n", "out2", "out3">>
stderrStream == <<"EADDRINUSE", "\n", "err2">>

\* OutputParser.isCriticalError: message.includes(...)
OutputParser_isCriticalError(message) ==
    \/ containsAny(message, {"EADDRINUSE", "EACCES", "ENOENT"})
    \/ /\ containsAny(message, {"FATAL ERROR:"})
       /\ ~containsAny(message, {"generateStaticParams"})
    \/ /\ containsAny(message, {"Error: Cannot find module"})
       /\ ~containsAny(message, {".next"})

\* StandardOutputParser.parse, the parser OutputParserFactory.create returns
\* for a server command that names no Foreman-like tool; rawMessage is
\* undefined for stdout
StandardOutputParser_parse(t, isErr) ==
    LET lines == linesOf(t)
    IN  [i \in 1..Len(lines) |->
            IF isErr
            THEN [formatted  |-> <<"ERROR: ">> \o lines[i],
                  isCritical |-> OutputParser_isCriticalError(lines[i]),
                  rawMessage |-> lines[i]]
            ELSE [formatted  |-> lines[i],
                  isCritical |-> FALSE]]

\* ForemanOutputParser.parse, FOREMAN_REGEX =
\* /^(\d{2}:\d{2}:\d{2})\s+(\w+)\.(\d+)\s+\|\s+(.*)$/; the critical flag is
\* computed on the untrimmed message
ForemanOutputParser_parse(t, isErr) ==
    LET lines == linesOf(t)
        parseLine(line) ==
            LET ws1     == spanOf(line, 9, Whitespace)
                nameAt  == 9 + ws1
                nameLen == spanOf(line, nameAt, WordChars)
                dotAt   == nameAt + nameLen
                instLen == spanOf(line, dotAt + 1, Digits)
                ws2At   == dotAt + 1 + instLen
                ws2     == spanOf(line, ws2At, Whitespace)
                pipeAt  == ws2At + ws2
                ws3     == spanOf(line, pipeAt + 1, Whitespace)
                message == SubSeq(line, pipeAt + 1 + ws3, Len(line))
                matched == /\ hmsAt(line, 1)
                           /\ ws1 >= 1
                           /\ nameLen >= 1
                           /\ dotAt <= Len(line)
                           /\ line[dotAt] = "."
                           /\ instLen >= 1
                           /\ ws2 >= 1
                           /\ pipeAt <= Len(line)
                           /\ line[pipeAt] = "|"
                           /\ ws3 >= 1
                shown   == IF matched
                           THEN <<"[">>
                                  \o toUpperCase(SubSeq(line, nameAt, dotAt - 1))
                                  \o <<"]", " ">> \o trim(message)
                           ELSE line
                judged  == IF matched THEN message ELSE line
            IN  IF isErr
                THEN [formatted  |-> <<"ERROR: ">> \o shown,
                      isCritical |-> OutputParser_isCriticalError(judged),
                      rawMessage |-> IF matched THEN trim(message) ELSE line]
                ELSE [formatted  |-> shown,
                      isCritical |-> FALSE]
    IN  [i \in 1..Len(lines) |-> parseLine(lines[i])]

\* OutputParserFactory.create: the first of PARSER_PATTERNS the command
\* includes (all name ForemanOutputParser), else StandardOutputParser; the
\* command is not lower-cased
OutputParserFactory_create(cmd) ==
    IF containsAny(cmd, {"bin/dev", "foreman"}) THEN "foreman" ELSE "standard"

\* this.outputParser.parse(text, isError)
OutputParser_parse(parser, t, isErr) ==
    IF parser = "foreman" THEN ForemanOutputParser_parse(t, isErr)
                          ELSE StandardOutputParser_parse(t, isErr)

RECURSIVE forEachLog_lastFirst(_, _)
forEachLog_lastFirst(file, es) ==
    IF es = <<>>
    THEN file
    ELSE Logger_log(forEachLog_lastFirst(file, Tail(es)), "SERVER", Head(es).formatted)

\* entries.forEach(entry => this.logger.log('server', entry.formatted))
RECURSIVE forEachLog(_, _)
forEachLog(file, es) ==
    IF es = <<>>
    THEN file
    ELSE forEachLog(Logger_log(file, "SERVER", Head(es).formatted), Tail(es))

\* the raw messages of the entries with `entry.isCritical && entry.rawMessage`
criticalRawMessages(es) ==
    LET crit == SelectSeq(es, LAMBDA e : e.isCritical /\ e.rawMessage # <<>>)
    IN  [i \in 1..Len(crit) |-> crit[i].rawMessage]

surfaceCritical_shutsDown(es) ==
    /\ console' = console \o criticalRawMessages(es)
    /\ IF criticalRawMessages(es) # <<>>
       THEN gracefulShutdown /\ countTrigger("serverExit")
       ELSE UNCHANGED <<sdVars, triggers>>

\* the stderr handler on critical entries: console.error and nothing else
surfaceCritical(es) ==
    /\ console' = console \o criticalRawMessages(es)
    /\ UNCHANGED <<sdVars, triggers>>

\* serverProcess.stdout.on('data'): parse the chunk, log every entry
serverProcess_stdout_onData(n) ==
    /\ ~exited
    /\ serverProcess # "null"
    /\ stdoutRead + n <= Len(stdoutStream)
    /\ stdoutRead' = stdoutRead + n
    /\ LET chunk == SubSeq(stdoutStream, stdoutRead + 1, stdoutRead + n)
       IN  log' = forEachLog(log, OutputParser_parse(outputParser, chunk, FALSE))
    /\ UNCHANGED <<stderrRead, browserEvents, console, portInUse, factVars, parseVars, fsVars>>
    /\ UNCHANGED <<startVars, procVars, instVars, cdpVars, sdVars, exitVars, triggers>>

\* serverProcess.stderr.on('data'): parse the chunk, log every entry, show
\* the critical ones on the console
serverProcess_stderr_onData(n) ==
    /\ ~exited
    /\ serverProcess # "null"
    /\ stderrRead + n <= Len(stderrStream)
    /\ stderrRead' = stderrRead + n
    /\ LET chunk == SubSeq(stderrStream, stderrRead + 1, stderrRead + n)
           es    == OutputParser_parse(outputParser, chunk, TRUE)
       IN  /\ log' = forEachLog(log, es)
           /\ surfaceCritical(es)
    /\ UNCHANGED <<stdoutRead, browserEvents, portInUse, factVars, parseVars, fsVars>>
    /\ UNCHANGED <<startVars, procVars, instVars, cdpVars, exitVars>>

\* the message of the n-th event of the browser: a console error of the page
\* whose text names an error code that the parser of the application's
\* output looks for
browserMessage(n) == <<"browser event " \o ToString(n), ": ", "ENOENT">>

cdpMonitor_onEvent_asStderr ==
    /\ ~exited
    /\ cdpMonitor = "created"
    /\ browserEvents < MaxBrowserEvents
    /\ browserEvents' = browserEvents + 1
    /\ LET es == OutputParser_parse(outputParser, browserMessage(browserEvents'), TRUE)
       IN  /\ log' = forEachLog(log, es)
           /\ surfaceCritical(es)
    /\ UNCHANGED <<stdoutRead, stderrRead, portInUse, factVars, parseVars, fsVars>>
    /\ UNCHANGED <<startVars, procVars, instVars, cdpVars, exitVars>>

\* the callback given to new CDPMonitor(...): this.logger.log('browser', message)
cdpMonitor_onEvent ==
    /\ ~exited
    /\ cdpMonitor = "created"
    /\ browserEvents < MaxBrowserEvents
    /\ browserEvents' = browserEvents + 1
    /\ log' = Logger_log(log, "BROWSER", browserMessage(browserEvents'))
    /\ UNCHANGED <<stdoutRead, stderrRead, console, portInUse, factVars, parseVars, fsVars>>
    /\ UNCHANGED <<startVars, procVars, instVars, cdpVars, sdVars, exitVars, triggers>>

----------------------------------------------------------------------------
(* The factories: which parser and which detector a launch command gets *)

\* The launch commands.  A command is a sequence of literal pieces of text;
\* `command.includes(s)` is modelled by the set of the pieces that contain s.
Commands ==
    { <<"bin/dev">>, <<"BIN/DEV">>, <<"bin/rails", " server">>,
      <<"foreman", " start">>, <<"docker-compose", " up">>, <<"pm2", " start">>,
      <<"next", " dev">>, <<"npm run dev">>, <<"npm start">>,
      <<"manage.py", " runserver">>, <<"node ", "server.js">>,
      <<"custom-script">> }

\* the files existsSync is asked about that the working directory may hold
MarkerFiles == {"Gemfile", "next.config.js"}

\* the values of the processManager and framework parameters
ProcessManagers == {"auto", "foreman", "overmind", "hivemind", "docker-compose",
                    "pm2", "standard"}
Frameworks == {"auto", "rails", "nextjs", "django", "express"}

\* serverCommand.toLowerCase()
Command_toLowerCase(command) ==
    [i \in 1..Len(command) |-> IF command[i] = "BIN/DEV" THEN "bin/dev"
                                                         ELSE command[i]]

\* FormatParserFactory.detectProcessManager
FormatParserFactory_detectProcessManager(cmd) ==
    LET command == Command_toLowerCase(cmd)
    IN  IF containsAny(command, {"bin/dev", "foreman"})
        THEN "foreman"
        ELSE IF containsAny(command, {"docker-compose"})
             THEN "docker-compose"
             ELSE IF containsAny(command, {"pm2"})
                  THEN "pm2"
                  ELSE "standard"

FormatParserFactory_create_detectFirst(processManager, cmd) ==
    LET pm == IF cmd # <<>>
              THEN FormatParserFactory_detectProcessManager(cmd)
              ELSE processManager
    IN  CASE pm \in {"foreman", "overmind", "hivemind"} -> "foreman"
          [] pm = "docker-compose"                      -> "docker-compose"
          [] pm = "pm2"                                 -> "pm2"
          [] OTHER                                      -> "standard"

\* FormatParserFactory.create: the kind of the parser it returns (every
\* command of the model is a non-empty string, which is truthy)
FormatParserFactory_create(processManager, cmd) ==
    LET pm == IF processManager = "auto" /\ cmd # <<>>
              THEN FormatParserFactory_detectProcessManager(cmd)
              ELSE processManager
    IN  CASE pm \in {"foreman", "overmind", "hivemind"} -> "foreman"
          [] pm = "docker-compose"                      -> "docker-compose"
          [] pm = "pm2"                                 -> "pm2"
          [] OTHER                                      -> "standard"

ErrorDetectorFactory_detectFramework_withoutBinDev(cmd) ==
    IF containsAny(Command_toLowerCase(cmd), {"bin/rails"})
    THEN "rails"
    ELSE "unknown"

\* ErrorDetectorFactory.detectFramework
ErrorDetectorFactory_detectFramework(cmd) ==
    LET command == Command_toLowerCase(cmd)
    IN  IF containsAny(command, {"bin/rails", "bin/dev"})
        THEN "rails"
        ELSE IF containsAny(command, {"next", "npm run dev"})
             THEN "nextjs"
             ELSE IF containsAny(command, {"manage.py", " runserver"})
                  THEN "django"
                  ELSE IF containsAny(command, {"node "})
                       THEN "express"
                       ELSE "unknown"

\* ErrorDetectorFactory.create: the kind of the detector it returns
ErrorDetectorFactory_create(framework, cmd) ==
    LET fw == IF framework = "auto" /\ cmd # <<>>
              THEN ErrorDetectorFactory_detectFramework(cmd)
              ELSE framework
    IN  IF fw \in {"rails", "nextjs", "django", "express"} THEN fw ELSE "base"

OutputProcessorFactory_create_coupled(cmd, processManager, framework) ==
    [formatParser  |-> FormatParserFactory_create(processManager, cmd),
     errorDetector |->
        IF FormatParserFactory_create(processManager, cmd) = "foreman"
           /\ framework = "auto"
        THEN "rails"
        ELSE ErrorDetectorFactory_create(framework, cmd)]

\* OutputProcessorFactory.create (factories.ts, with FormatParserFactory and
\* ErrorDetectorFactory): the kinds of the processor's parts
OutputProcessorFactory_create(cmd, processManager, framework) ==
    [formatParser  |-> FormatParserFactory_create(processManager, cmd),
     errorDetector |-> ErrorDetectorFactory_create(framework, cmd)]

\* ProjectDetector.detectProcessManager
ProjectDetector_detectProcessManager(cmd) ==
    IF containsAny(Command_toLowerCase(cmd), {"bin/dev", "foreman"})
    THEN "foreman"
    ELSE "standard"

\* ProjectDetector.detectFramework: isRailsProject() || isRailsCommand(...),
\* then isNextJsProject(), then null
ProjectDetector_detectFramework(cmd, files) ==
    IF \/ "Gemfile" \in files
       \/ /\ cmd # <<>>
          /\ containsAny(Command_toLowerCase(cmd), {"bin/rails", "bin/dev"})
    THEN "rails"
    ELSE IF "next.config.js" \in files
         THEN "nextjs"
         ELSE "null"

\* OutputProcessorFactory.create (the factory that delegates to
\* ProjectDetector, LogFormatParserFactory and the pure ErrorDetectorFactory);
\* its parameters are of the types ProcessManagerOption and FrameworkOption
ProjectOutputProcessorFactory_create(cmd, processManager, framework, files) ==
    LET resolvedProcessManager ==
            IF processManager = "auto"
            THEN ProjectDetector_detectProcessManager(cmd)
            ELSE processManager
        detected == ProjectDetector_detectFramework(cmd, files)
        resolvedFramework ==
            IF framework = "auto"
            THEN (IF detected = "null" THEN "nextjs" ELSE detected)
            ELSE framework
    IN  [formatParser  |-> resolvedProcessManager,
         errorDetector |-> resolvedFramework]

\* one call of OutputProcessorFactory.create of factories.ts
createOutputProcessor(processManager, framework) ==
    /\ Len(factoryCalls) < MaxFactoryCalls
    /\ factoryCalls' = Append(factoryCalls,
          [factory        |-> "OutputProcessorFactory",
           processManager |-> processManager,
           framework      |-> framework,
           processor      |-> OutputProcessorFactory_create(
                                  serverCommand, processManager, framework)])
    /\ UNCHANGED <<serverCommand, markerFiles, options, outputParser, portInUse, parseVars, fsVars, ioVars>>
    /\ UNCHANGED <<startVars, procVars, instVars, cdpVars, sdVars, exitVars,
                   triggers, log>>

\* one call of the OutputProcessorFactory.create that uses ProjectDetector
createProjectOutputProcessor(processManager, framework) ==
    /\ Len(factoryCalls) < MaxFactoryCalls
    /\ factoryCalls' = Append(factoryCalls,
          [factory        |-> "ProjectOutputProcessorFactory",
           processManager |-> processManager,
           framework      |-> framework,
           processor      |-> ProjectOutputProcessorFactory_create(
                                  serverCommand, processManager, framework,
                                  markerFiles)])
    /\ UNCHANGED <<serverCommand, markerFiles, options, outputParser, portInUse, parseVars, fsVars, ioVars>>
    /\ UNCHANGED <<startVars, procVars, instVars, cdpVars, sdVars, exitVars,
                   triggers, log>>

\* the chunks the application of a session started from the command line
\* writes
CliChunks ==
    { <<"x">>, <<"EADDRINUSE">>, <<"LoadError">>, <<"TypeError:">>,
      <<"w", "e", "b", "_", "1", " ", "|", " ", "x">>,
      ForemanPrefix \o <<" ", "LoadError">> }

\* new DevEnvironment(options): this.outputParser =
\* OutputParserFactory.create(options.serverCommand)
DevEnvironment_constructor ==
    /\ outputParser = "null"
    /\ outputParser' = OutputParserFactory_create(serverCommand)
    /\ UNCHANGED <<serverCommand, markerFiles, factoryCalls, options>>
    /\ UNCHANGED <<portInUse, parseVars, fsVars, ioVars>>
    /\ UNCHANGED <<startVars, procVars, instVars, cdpVars, sdVars, exitVars,
                   triggers, log>>

\* the 'data' handlers of the application's stdout and stderr on one chunk:
\* const entries = this.outputParser.parse(text, isError)
serverProcess_onData ==
    /\ outputParser # "null"
    /\ ~processed
    /\ processed' = TRUE
    /\ entries' = OutputParser_parse(outputParser, text, isError)
    /\ UNCHANGED <<text, isError, formatParser, errorDetector, parsedLines>>
    /\ UNCHANGED <<portInUse, factVars, fsVars, ioVars>>
    /\ UNCHANGED <<startVars, procVars, instVars, cdpVars, sdVars, exitVars,
                   triggers, log>>

----------------------------------------------------------------------------
(* The specification *)

\* new DevEnvironment(options): the fields' initial values; the log file is
\* cleared by the Logger constructor
constructed ==
    /\ pc = "idle"
    /\ portIdx = 0
    /\ handlersInstalled = FALSE
    /\ attempts = 0
    /\ probe = "none"
    /\ ready = FALSE
    /\ waitResult = [w \in {"server", "mcp"} |-> "pending"]
    /\ serverProcess = "null"
    /\ serverExitCode = NullCode
    /\ mcpServerProcess = "null"
    /\ mcpExitCode = NullCode
    /\ installProcess = "null"
    /\ installPromise = "none"
    /\ installTimer = FALSE
    /\ installExitCode = NullCode
    /\ cdpMonitor = "null"
    /\ cdpPhase = "none"
    /\ isShuttingDown = FALSE
    /\ shutdownKind = "none"
    /\ sdPc = "none"
    /\ killPending = {}
    /\ killsIssued = [p \in Ports |-> 0]
    /\ bodyRuns = 0
    /\ cdpShutdownCalls = 0
    /\ triggers = [t \in TriggerSources |-> 0]
    /\ exited = FALSE
    /\ exitCode = 0
    /\ log = <<>>

\* no process() call is under study
noProcessCall ==
    /\ text = <<>>
    /\ isError = FALSE
    /\ formatParser = "standard"
    /\ errorDetector = "base"
    /\ parsedLines = <<>>
    /\ entries = <<>>
    /\ processed = FALSE

\* the log directory before the first session of the project
emptyLogDir ==
    /\ logDirFiles = <<>>
    /\ symlink = 0
    /\ sessionStarts = 0
    /\ lateAppends = 0
    /\ externalUnlinks = 0

\* the session was started without options for a command that names no
\* Foreman-like tool, and no factory was called
noFactoryCall ==
    /\ serverCommand = <<>>
    /\ markerFiles = {}
    /\ factoryCalls = <<>>
    /\ options = [processManager |-> "auto", framework |-> "auto"]
    /\ outputParser = "standard"

\* nothing was read from the application and the browser reported nothing
noOutput ==
    /\ stdoutRead = 0
    /\ stderrRead = 0
    /\ browserEvents = 0
    /\ console = <<>>

Init ==
    /\ constructed
    /\ portInUse \in [Ports -> BOOLEAN]
    /\ noProcessCall
    /\ emptyLogDir
    /\ noOutput
    /\ noFactoryCall

Next ==
    \/ start
    \/ checkPortsAvailable
    \/ \E code \in ChildExitCodes : installExit(code)
    \/ installError
    \/ installTimeout
    \/ \E outcome \in ProbeOutcomes : waitForServer_probe(outcome)
    \/ waitForServer_timer
    \/ \E outcome \in ProbeOutcomes : waitForMcpServer_probe(outcome)
    \/ waitForMcpServer_timer
    \/ \E code \in ExitCodes : serverExit(code)
    \/ \E code \in ChildExitCodes : mcpExit(code)
    \/ \E ok \in BOOLEAN : cdpStartSettles(ok)
    \/ \E ok \in BOOLEAN : cdpNavigateSettles(ok)
    \/ sigint
    \/ \E p \in Ports : killExit(p)
    \/ \E ok \in BOOLEAN : cdpShutdownSettles(ok)

Spec == Init /\ [][Next]_vars

\* the supervisor with the progress its event loop guarantees: an armed timer
\* fires, a fetch settles within its AbortSignal.timeout, a kill subprocess
\* exits, and the awaited cdpMonitor.shutdown() returns or throws.  The
\* application exits with a code that is only logged or with a fatal one.
NextFair ==
    \/ start
    \/ checkPortsAvailable
    \/ \E code \in ChildExitCodes : installExit(code)
    \/ installError
    \/ installTimeout
    \/ \E outcome \in ProbeOutcomes : waitForServer_probe(outcome)
    \/ waitForServer_timer
    \/ \E outcome \in ProbeOutcomes : waitForMcpServer_probe(outcome)
    \/ waitForMcpServer_timer
    \/ \E code \in {1, 2} : serverExit(code)
    \/ \E ok \in BOOLEAN : cdpStartSettles(ok)
    \/ \E ok \in BOOLEAN : cdpNavigateSettles(ok)
    \/ sigint
    \/ \E p \in Ports : killExit(p)
    \/ \E ok \in BOOLEAN : cdpShutdownSettles(ok)

SpecFair ==
    /\ Init
    /\ [][NextFair]_vars
    /\ WF_vars(installTimeout)
    /\ WF_vars(\E outcome \in ProbeOutcomes : waitForServer_probe(outcome))
    /\ WF_vars(waitForServer_timer)
    /\ WF_vars(\E outcome \in ProbeOutcomes : waitForMcpServer_probe(outcome))
    /\ WF_vars(waitForMcpServer_timer)
    /\ WF_vars(\E p \in Ports : killExit(p))
    /\ WF_vars(\E ok \in BOOLEAN : cdpShutdownSettles(ok))

\* an OutputProcessor of any configuration is about to be given any chunk
InitProcess ==
    /\ constructed
    /\ portInUse = [p \in Ports |-> FALSE]
    /\ text \in Texts
    /\ isError \in BOOLEAN
    /\ formatParser \in FormatParsers
    /\ errorDetector \in ErrorDetectors
    /\ parsedLines = <<>>
    /\ entries = <<>>
    /\ processed = FALSE
    /\ emptyLogDir
    /\ noOutput
    /\ noFactoryCall

NextProcess == process

SpecProcess == InitProcess /\ [][NextProcess]_vars

\* a format parser of any kind is about to be given a chunk of lines in and
\* near the formats of the process managers
InitFormat ==
    /\ constructed
    /\ portInUse = [p \in Ports |-> FALSE]
    /\ text \in FormatTexts
    /\ isError \in BOOLEAN
    /\ formatParser \in FormatParsers
    /\ errorDetector = "base"
    /\ parsedLines = <<>>
    /\ entries = <<>>
    /\ processed = FALSE
    /\ emptyLogDir
    /\ noOutput
    /\ noFactoryCall

NextFormat == process

SpecFormat == InitFormat /\ [][NextFormat]_vars

\* an error detector of any kind is about to be given a stderr line written
\* with the symbols its patterns look for
InitDetect ==
    /\ constructed
    /\ portInUse = [p \in Ports |-> FALSE]
    /\ text \in DetectTexts
    /\ isError = TRUE
    /\ formatParser = "standard"
    /\ errorDetector \in ErrorDetectors
    /\ parsedLines = <<>>
    /\ entries = <<>>
    /\ processed = FALSE
    /\ emptyLogDir
    /\ noOutput
    /\ noFactoryCall

NextDetect == process

SpecDetect == InitDetect /\ [][NextDetect]_vars

\* a launch command in a working directory, before any factory call
InitFactory ==
    /\ constructed
    /\ portInUse = [p \in Ports |-> FALSE]
    /\ noProcessCall
    /\ emptyLogDir
    /\ noOutput
    /\ serverCommand \in Commands
    /\ markerFiles \in SUBSET MarkerFiles
    /\ factoryCalls = <<>>
    /\ options = [processManager |-> "auto", framework |-> "auto"]
    /\ outputParser = "standard"

NextFactory ==
    \/ \E pm \in ProcessManagers, fw \in Frameworks :
          createOutputProcessor(pm, fw)
    \/ \E pm \in {"auto", "foreman", "standard"}, fw \in {"auto", "rails", "nextjs"} :
          createProjectOutputProcessor(pm, fw)

SpecFactory == InitFactory /\ [][NextFactory]_vars

\* the command line was parsed: a launch command, the two options, and the
\* chunk the application is going to write
InitCli ==
    /\ constructed
    /\ portInUse = [p \in Ports |-> FALSE]
    /\ emptyLogDir
    /\ noOutput
    /\ serverCommand \in Commands
    /\ markerFiles = {}
    /\ factoryCalls = <<>>
    /\ options \in [processManager : {"foreman", "docker-compose", "pm2", "standard", "auto"},
                     framework : Frameworks]
    /\ outputParser = "null"
    /\ text \in CliChunks
    /\ isError \in BOOLEAN
    /\ formatParser = "standard"
    /\ errorDetector = "base"
    /\ parsedLines = <<>>
    /\ entries = <<>>
    /\ processed = FALSE

NextCli ==
    \/ DevEnvironment_constructor
    \/ serverProcess_onData

SpecCli == InitCli /\ [][NextCli]_vars

InitLogFiles ==
    /\ constructed
    /\ portInUse = [p \in Ports |-> FALSE]
    /\ noProcessCall
    /\ emptyLogDir
    /\ noOutput
    /\ noFactoryCall

NextLogFiles ==
    \/ createPersistentLogFile
    \/ \E f \in 1..MaxStarts : lateAppend(f)
    \/ \E f \in 1..MaxStarts : externalUnlink(f)

SpecLogFiles == InitLogFiles /\ [][NextLogFiles]_vars

\* start() has returned and startCDPMonitoring has completed: both processes
\* run, both readiness waits succeeded, Chrome is launched and shows the app
sessionRunning ==
    /\ pc = "running"
    /\ portIdx = Len(ports)
    /\ handlersInstalled = TRUE
    /\ attempts = 0
    /\ probe = "none"
    /\ ready = TRUE
    /\ waitResult = [w \in {"server", "mcp"} |-> "ready"]
    /\ serverProcess = "running"
    /\ serverExitCode = NullCode
    /\ mcpServerProcess = "running"
    /\ mcpExitCode = NullCode
    /\ installProcess = "exited"
    /\ installPromise = "resolved"
    /\ installTimer = FALSE
    /\ installExitCode = 0
    /\ cdpMonitor = "created"
    /\ cdpPhase = "done"
    /\ isShuttingDown = FALSE
    /\ shutdownKind = "none"
    /\ sdPc = "none"
    /\ killPending = {}
    /\ killsIssued = [p \in Ports |-> 0]
    /\ bodyRuns = 0
    /\ cdpShutdownCalls = 0
    /\ triggers = [t \in TriggerSources |-> 0]
    /\ exited = FALSE
    /\ exitCode = 0
    /\ log = << [source  |-> "BROWSER",
                 message |-> <<"[CDP] Chrome launched with DevTools Protocol monitoring">>],
                [source  |-> "BROWSER",
                 message |-> <<"[CDP] Navigated to the app">>] >>

\* exit codes of the application in a running session: one that is only
\* logged and one that is fatal
SessionExitCodes == {1, 2}

\* a session from the return of start() on, with the output of the
\* application and the events of the browser
InitSession ==
    /\ sessionRunning
    /\ portInUse = [p \in Ports |-> FALSE]
    /\ noProcessCall
    /\ emptyLogDir
    /\ noOutput
    /\ noFactoryCall

NextSession ==
    \/ \E n \in 1..MaxChunkLen : serverProcess_stdout_onData(n)
    \/ \E n \in 1..MaxChunkLen : serverProcess_stderr_onData(n)
    \/ cdpMonitor_onEvent
    \/ \E code \in SessionExitCodes : serverExit(code)
    \/ sigint
    \/ \E p \in Ports : killExit(p)
    \/ \E ok \in BOOLEAN : cdpShutdownSettles(ok)

SpecSession == InitSession /\ [][NextSession]_vars

\* the awaits of start() in program order, as the positions of pc
startSteps ==
    <<"idle", "checkPorts", "installDeps", "waitForServer", "waitForMcpServer",
      "running">>

stepIndex(p) == CHOOSE i \in 1..Len(startSteps) : startSteps[i] = p

----------------------------------------------------------------------------
(* Claims *)

\* C1: however many shutdown triggers arrive (fatal application exit,
\* instrumentation failure, interrupt signal) and in whatever order, the
\* shutdown body is entered exactly once in total, counting gracefulShutdown
\* and the SIGINT handler together: one kill per port, at most one
\* cdpMonitor.shutdown(), and as soon as one trigger has fired the body has run.
C1_ShutdownBodyOnce ==
    /\ bodyRuns <= 1
    /\ \A p \in Ports : killsIssued[p] = bodyRuns
    /\ cdpShutdownCalls <= bodyRuns
    /\ isShuttingDown <=> (bodyRuns = 1)
    /\ (\E t \in TriggerSources : triggers[t] > 0) <=> (bodyRuns = 1)

\* all three kinds of trigger fired, one of them twice, and the process exited
\* after a single body
C1_Witness ==
    /\ exited
    /\ triggers["sigint"] = 2
    /\ triggers["serverExit"] = 1
    /\ triggers["cdp"] = 1
    /\ bodyRuns = 1
    /\ cdpShutdownCalls = 1

\* C2: every fatal termination after the application process was spawned
\* has issued a kill for both ports before the supervisor exits.
C2_FatalExitReleasesPorts ==
    (exited /\ exitCode # 0 /\ serverProcess # "null")
        => \A p \in Ports : killsIssued[p] >= 1

\* C3: once the terminating flag is set, start() makes no further progress:
\* no process is spawned, the instrumentation monitor is not created or
\* started, the session is not reported ready, and a probe that returns is
\* discarded instead of moving start() to its next step.
C3_NoProgressOnceTerminating ==
    [][isShuttingDown =>
          /\ (serverProcess = "null" => serverProcess' = "null")
          /\ (mcpServerProcess = "null" => mcpServerProcess' = "null")
          /\ cdpMonitor' = cdpMonitor
          /\ (cdpPhase = "none" => cdpPhase' = "none")
          /\ ready' = ready
          /\ pc' = pc]_vars

\* C4: the exit status is 0 exactly when the shutdown body that ran was the
\* interrupt handler's, and it is the status of the trigger that set the
\* terminating flag first.
C4_ExitStatusOfFirstTrigger ==
    exited =>
        /\ (exitCode = 0) <=> (shutdownKind = "sigint")
        /\ (shutdownKind = "failure" => exitCode # 0)

\* C5: if a port is in use when the port check runs, start() fails at the
\* check: nothing is spawned (application, installer, companion, monitor), no
\* handler is installed, the check does not move past the port and is not
\* repeated, and the only step left ends the supervisor with a non-zero status.
C5_PortInUseAbortsStart ==
    /\ []((\E p \in Ports : portInUse[p]) =>
            /\ pc \in {"idle", "checkPorts"}
            /\ serverProcess = "null"
            /\ mcpServerProcess = "null"
            /\ installProcess = "null"
            /\ cdpMonitor = "null"
            /\ ~handlersInstalled
            /\ ~ready
            /\ (pc = "checkPorts" => \A i \in 1..(portIdx - 1) : ~portInUse[ports[i]])
            /\ (exited => exitCode # 0))
    /\ [][(pc = "checkPorts" /\ portInUse[ports[portIdx]])
            => (exited' /\ exitCode' # 0 /\ pc' = pc /\ portIdx' = portIdx)]_vars

\* the second port was found in use and the supervisor exited with status 1
C5_Witness ==
    /\ exited
    /\ exitCode = 1
    /\ pc = "checkPorts"
    /\ portIdx = 2
    /\ portInUse[ports[2]]
    /\ serverProcess = "null"

\* C6: when the application process exits while the session is not
\* terminating, exit code 0, null, 1, 130 or 143 triggers no shutdown and
\* the session keeps running; every other code enters the shutdown routine, and
\* a shutdown entered by a failure ends with a non-zero status.
C6_ServerExitPolicy ==
    /\ [][(serverProcess = "running" /\ serverProcess' = "exited" /\ ~isShuttingDown) =>
            IF serverExitCode' \in {0, NullCode, 1, 130, 143}
            THEN /\ UNCHANGED <<sdVars, exitVars, startVars, triggers>>
                 /\ ~isShuttingDown'
            ELSE /\ isShuttingDown'
                 /\ shutdownKind' = "failure"
                 /\ sdPc' = "killing"
                 /\ bodyRuns' = bodyRuns + 1
                 /\ triggers'["serverExit"] = triggers["serverExit"] + 1]_vars
    /\ []((exited /\ shutdownKind = "failure") => exitCode # 0)

\* the application exited with code 2 while the session was Running and the
\* shutdown it triggered ended the supervisor with status 1
C6_Witness ==
    /\ exited
    /\ exitCode = 1
    /\ serverProcess = "exited"
    /\ serverExitCode = 2
    /\ triggers["serverExit"] = 1
    /\ triggers["sigint"] = 0
    /\ triggers["cdp"] = 0
    /\ ready

\* C7: if the companion process exits while the session is not terminating,
\* the shutdown routine is triggered.
C7_CompanionExitShutsDown ==
    [][(mcpServerProcess = "running" /\ mcpServerProcess' = "exited" /\ ~isShuttingDown)
          => isShuttingDown']_vars

\* C8 as stated: after a failure of cdpMonitor.start() or navigateToApp() the
\* guarded trigger has been invoked, the session is terminating, and the
\* supervisor exits non-zero.
C8_InstrumentationFailureExitsNonZero ==
    /\ (cdpPhase = "failed" => (isShuttingDown /\ triggers["cdp"] = 1))
    /\ ((cdpPhase = "failed" /\ exited) => exitCode # 0)

\* C8 amended: after a failure of cdpMonitor.start() or navigateToApp() the
\* guarded trigger has been invoked and the session is terminating (never
\* Running without instrumentation); the supervisor exits non-zero unless the
\* interrupt handler had set the terminating flag before the failure, in which
\* case the interrupt's shutdown completes with status 0.
C8_InstrumentationFailureShutsDown ==
    /\ (cdpPhase = "failed" => (isShuttingDown /\ triggers["cdp"] = 1 /\ bodyRuns = 1))
    /\ ((cdpPhase = "failed" /\ exited /\ shutdownKind # "sigint") => exitCode # 0)
    /\ ((cdpPhase = "failed" /\ exited /\ shutdownKind = "sigint") => exitCode = 0)

\* the instrumentation failed with no other trigger, and the shutdown it
\* started ended the supervisor with status 1
C8_Witness ==
    /\ cdpPhase = "failed"
    /\ exited
    /\ exitCode = 1
    /\ triggers["cdp"] = 1
    /\ triggers["serverExit"] = 0
    /\ triggers["sigint"] = 0
    /\ cdpShutdownCalls = 1

\* C9: if all maxAttempts companion probes are not-ready, start() fails
\* before Running: the monitor is never created or started, readiness is never
\* reported, and the supervisor has exited with a non-zero status.
C9_CompanionExhaustedAborts ==
    waitResult["mcp"] = "exhausted" =>
        /\ attempts = maxAttempts
        /\ pc = "waitForMcpServer"
        /\ cdpMonitor = "null"
        /\ cdpPhase = "none"
        /\ ~ready
        /\ exited
        /\ exitCode # 0

\* the companion wait was exhausted after the application wait had succeeded
C9_Witness ==
    /\ waitResult["mcp"] = "exhausted"
    /\ waitResult["server"] = "ready"
    /\ attempts = maxAttempts
    /\ exited
    /\ exitCode = 1
    /\ ~isShuttingDown

\* C10: if all maxAttempts application probes are not-ready, waitForServer
\* returns normally: start() goes on to the companion readiness wait, and the
\* exhaustion neither ends the supervisor nor touches the shutdown state.
C10_ServerExhaustedContinues ==
    [][(waitResult["server"] # "exhausted" /\ waitResult'["server"] = "exhausted") =>
          /\ attempts = maxAttempts
          /\ pc = "waitForServer"
          /\ pc' = "waitForMcpServer"
          /\ probe' = "inflight"
          /\ attempts' = 0
          /\ UNCHANGED <<sdVars, exitVars, triggers, procVars, cdpVars>>]_vars

\* the session reached Running after the application wait was exhausted
C10_Witness ==
    /\ waitResult["server"] = "exhausted"
    /\ waitResult["mcp"] = "ready"
    /\ pc = "running"
    /\ ready
    /\ ~isShuttingDown
    /\ ~exited

\* C11: the startup steps happen in the fixed order port check, application
\* spawn, companion spawn, application readiness wait, companion readiness
\* wait, instrumentation launch, Running: start() only ever moves to its next
\* step, each step has begun only if the previous one completed (start() stays
\* at the port check when startMcpServer throws right after the application was
\* spawned), and Running is
\* entered in the same step that launches the instrumentation, before the
\* launch has completed.
C11_StartupOrder ==
    /\ [][pc' # pc => stepIndex(pc') = stepIndex(pc) + 1]_vars
    /\ [](serverProcess # "null" =>
            /\ \A p \in Ports : ~portInUse[p]
            /\ \/ stepIndex(pc) >= 3
               \/ (pc = "checkPorts" /\ portIdx = Len(ports) /\ exited))
    /\ [](mcpServerProcess # "null" =>
            (serverProcess # "null" /\ installPromise = "resolved"
             /\ stepIndex(pc) >= 4))
    /\ [](stepIndex(pc) >= 4 => mcpServerProcess # "null")
    /\ [](waitResult["server"] # "pending" <=> stepIndex(pc) >= 5)
    /\ [](waitResult["mcp"] = "ready" <=> pc = "running")
    /\ [](cdpPhase # "none" <=> pc = "running")
    /\ [](ready <=> pc = "running")
    /\ [][(pc # "running" /\ pc' = "running") =>
            (cdpPhase' \in {"starting", "setupFailed"} /\ ready')]_vars

\* the session is Running and reported ready while cdpMonitor.start() is
\* still pending
C11_Witness ==
    /\ pc = "running"
    /\ ready
    /\ cdpMonitor = "created"
    /\ cdpPhase = "starting"
    /\ waitResult["server"] = "ready"
    /\ waitResult["mcp"] = "ready"
    /\ ~isShuttingDown
    /\ ~exited

\* C12: a stderr chunk with a line the parser flags critical does not end the
\* session: the step that shows the line on the console changes neither the
\* shutdown state (terminating flag, kills, their counters) nor the state of
\* any process, of start() or of the monitor, and does not exit; it only
\* appends "ERROR: ..." entries to the log and raw messages to the console.
C12_CriticalLineOnlyLogged ==
    [][console' # console =>
          /\ UNCHANGED <<sdVars, procVars, exitVars, startVars, instVars, cdpVars,
                         triggers, stdoutRead, browserEvents>>
          /\ Len(log') > Len(log)
          /\ SubSeq(log', 1, Len(log)) = log
          /\ \A e \in (Len(log) + 1)..Len(log') :
                log'[e].source = "SERVER" /\ Head(log'[e].message) = "ERROR: "
          /\ Len(console') = Len(console) + 1
          /\ SubSeq(console', 1, Len(console)) = console
          /\ OutputParser_isCriticalError(console'[Len(console')])]_vars

\* the critical line was shown and logged, and the session still runs with
\* nothing killed
C12_Witness ==
    /\ console # <<>>
    /\ \E e \in 1..Len(log) : contains(log[e].message, "EADDRINUSE")
    /\ ~isShuttingDown
    /\ ~exited
    /\ serverProcess = "running"
    /\ \A p \in Ports : killsIssued[p] = 0

\* C13: the entries of one output stream are in the log in the order their
\* source lines were read: every symbol of the stream that was delivered is in
\* exactly one entry, no undelivered symbol is in the log, and of two delivered
\* symbols the earlier one is in an earlier entry, or earlier in the same
\* entry, whatever entries of the browser, of the other stream or of the exit
\* handlers lie between them.
C13_StreamOrderKept ==
    LET places(sym) ==
            {pl \in (1..Len(log)) \X (1..4) :
                /\ pl[2] <= Len(log[pl[1]].message)
                /\ log[pl[1]].message[pl[2]] = sym}
        place(sym) == CHOOSE pl \in places(sym) : TRUE
        before(a, b) == a[1] < b[1] \/ (a[1] = b[1] /\ a[2] < b[2])
        ordered(stream, read) ==
            /\ \A i \in 1..Len(stream) :
                  stream[i] # "\n" =>
                      IF i <= read
                      THEN /\ Cardinality(places(stream[i])) = 1
                           /\ log[place(stream[i])[1]].source = "SERVER"
                      ELSE places(stream[i]) = {}
            /\ \A i, k \in 1..read :
                  (i < k /\ stream[i] # "\n" /\ stream[k] # "\n")
                      => before(place(stream[i]), place(stream[k]))
    IN  /\ ordered(stdoutStream, stdoutRead)
        /\ ordered(stderrStream, stderrRead)

\* both streams were read to the end, with a stderr entry and a browser event
\* between the first and the last stdout entry
C13_Witness ==
    /\ stdoutRead = Len(stdoutStream)
    /\ stderrRead = Len(stderrStream)
    /\ \E a, b, c, d \in 1..Len(log) :
          /\ a < b /\ b < c /\ c < d
          /\ contains(log[a].message, "out1")
          /\ contains(log[b].message, "EADDRINUSE")
          /\ log[c].message = browserMessage(1)
          /\ contains(log[d].message, "out3")

\* C14: in every interleaving of the output callbacks and the browser
\* callback the log is a sequence of whole entries that only grows: no step
\* changes or removes an entry already written, a browser event appends
\* exactly one entry, and a chunk appends exactly one entry per line of the
\* chunk.
C14_LogAppendOnly ==
    /\ [](\A e \in 1..Len(log) :
            /\ DOMAIN log[e] = {"source", "message"}
            /\ log[e].source \in {"SERVER", "BROWSER"}
            /\ log[e].message # <<>>)
    /\ [][LET lineCount(chunk) ==
                  Cardinality({i \in 1..Len(trim(chunk)) :
                      /\ trim(chunk)[i] # "\n"
                      /\ (i = 1 \/ trim(chunk)[i - 1] = "\n")})
          IN  /\ Len(log') >= Len(log)
              /\ SubSeq(log', 1, Len(log)) = log
              /\ browserEvents' # browserEvents =>
                    (/\ Len(log') = Len(log) + 1
                     /\ log'[Len(log')].source = "BROWSER")
              /\ stdoutRead' # stdoutRead =>
                    Len(log') = Len(log)
                        + lineCount(SubSeq(stdoutStream, stdoutRead + 1, stdoutRead'))
              /\ stderrRead' # stderrRead =>
                    Len(log') = Len(log)
                        + lineCount(SubSeq(stderrStream, stderrRead + 1, stderrRead'))]_vars

\* the session ended after both streams were read to the end and the browser
\* reported an event
C14_Witness ==
    /\ exited
    /\ stdoutRead = Len(stdoutStream)
    /\ stderrRead = Len(stderrStream)
    /\ browserEvents = 1
    /\ Len(log) >= 7
    /\ log[Len(log)].source = "BROWSER"

C16_AliasPointsAtLatest ==
    sessionStarts > 0 => symlink = sessionStarts

\* C17: for every chunk and either stream flag, process(chunk, flag) returns
\* exactly as many entries as the configured format parser returns ParsedLines
\* for the chunk, and the i-th entry carries the display string of the i-th
\* ParsedLine: nothing is merged, split, dropped or reordered.
C17_OneEntryPerParsedLine ==
    processed =>
        LET parsed == FormatParser_parse(formatParser, text)
            prefix == IF isError THEN <<"ERROR: ">> ELSE <<>>
        IN  /\ Len(entries) = Len(parsed)
            /\ \A i \in 1..Len(parsed) :
                  entries[i].formatted = prefix \o parsed[i].formatted

\* a stderr chunk of two different lines, the second a Foreman line, gave two
\* entries
C17_Witness ==
    /\ processed
    /\ isError
    /\ formatParser = "foreman"
    /\ Len(entries) = 2
    /\ parsedLines[1].formatted # parsedLines[2].formatted
    /\ parsedLines[2].formatted # parsedLines[2].message

\* C18: process(chunk, false) never sets the critical flag (nor the raw
\* message) on any entry, for every chunk, format parser and error detector,
\* including chunks whose lines the detector judges critical.
C18_NoCriticalOnStdout ==
    (processed /\ ~isError) =>
        \A i \in 1..Len(entries) : DOMAIN entries[i] = {"formatted"}

\* a stdout chunk held a line the detector judges critical
C18_Witness ==
    /\ processed
    /\ ~isError
    /\ \E i \in 1..Len(parsedLines) :
          ErrorDetector_isCritical(errorDetector, parsedLines[i].message)

\* C19: every entry's display text is "ERROR: " followed by the parsed
\* display string for a stderr chunk and the parsed display string itself
\* otherwise; the critical flag and the raw message are present exactly when
\* the chunk came from stderr and the detector returned true for the line's
\* semantic message, and the raw message is then that semantic message.
C19_EntryFields ==
    processed =>
        \A i \in 1..Len(entries) :
            LET line == parsedLines[i]
                e    == entries[i]
                crit == isError /\ ErrorDetector_isCritical(errorDetector, line.message)
            IN  /\ i <= Len(parsedLines)
                /\ e.formatted = IF isError THEN <<"ERROR: ">> \o line.formatted
                                            ELSE line.formatted
                /\ DOMAIN e = IF crit THEN {"formatted", "isCritical", "rawMessage"}
                                      ELSE {"formatted"}
                /\ crit => (e.isCritical = TRUE /\ e.rawMessage = line.message)

\* a critical stderr entry of a Foreman line: its raw message differs from
\* the display string
C19_Witness ==
    /\ processed
    /\ isError
    /\ \E i \in 1..Len(entries) :
          /\ "rawMessage" \in DOMAIN entries[i]
          /\ entries[i].rawMessage # parsedLines[i].formatted
          /\ entries[i].formatted = <<"ERROR: ">> \o parsedLines[i].formatted

C21_FallbackIsPassthrough ==
    (processed /\ formatParser # "standard") =>
        LET lines == linesOf(text)
            std   == StandardFormatParser_parse(text)
            matches(line) ==
                CASE formatParser = "foreman"        -> foremanMatch(line)
                  [] formatParser = "docker-compose" -> dockerMatch(line)
                  [] formatParser = "pm2"            -> pm2Match(line)
        IN  /\ Len(parsedLines) = Len(lines)
            /\ Len(std) = Len(lines)
            /\ \A i \in 1..Len(lines) :
                  ~matches(lines[i]) =>
                      /\ parsedLines[i] = std[i]
                      /\ DOMAIN parsedLines[i] = {"formatted", "message"}
                      /\ parsedLines[i].formatted = lines[i]
                      /\ parsedLines[i].message = lines[i]

\* the PM2 parser was given a chunk of two lines whose first line is a Docker
\* Compose line, not a PM2 line, and ends with whitespace
C21_Witness ==
    /\ processed
    /\ formatParser = "pm2"
    /\ Len(parsedLines) = 2
    /\ ~pm2Match(linesOf(text)[1])
    /\ linesOf(text)[1][Len(linesOf(text)[1])] \in Whitespace
    /\ dockerMatch(linesOf(text)[1])
    /\ DOMAIN parsedLines[1] = {"formatted", "message"}

\* C22: for every line of the form timestamp (HH:MM:SS, optionally .mmm),
\* whitespace, process name (letters, digits, underscore, hyphen), ".",
\* digits, whitespace, "|", message, the Foreman parser yields display
\* "[" + the process name in upper case + "] " + message, semantic message =
\* the message, process identifier = the process name as written, and metadata
\* {timestamp, instance as an integer}; the message is what follows the pipe
\* without the whitespace around it.
C22_ForemanMatchFields ==
    (processed /\ formatParser = "foreman") =>
        \A i \in 1..Len(parsedLines) :
            LET line  == linesOf(text)[i]
                n     == Len(line)
                all(a, b, S) == \A k \in a..b : line[k] \in S
                upper(name) ==
                    [k \in 1..Len(name) |->
                        IF name[k] \in DOMAIN UpperOf THEN UpperOf[name[k]]
                                                      ELSE name[k]]
                value(ds) == CHOOSE v \in 0..99 :
                    ToString(v) = (IF Len(ds) = 1 THEN ds[1] ELSE ds[1] \o ds[2])
            IN  /\ i <= Len(linesOf(text))
                /\ \A tsEnd \in {8, 12} :
                   \A pipeAt \in {q \in 1..n : line[q] = "|"} :
                   \A dotAt \in {q \in (tsEnd + 1)..(pipeAt - 1) : line[q] = "."} :
                   \A nameAt \in (tsEnd + 2)..(dotAt - 1) :
                   \A wsAt \in (dotAt + 2)..(pipeAt - 1) :
                      ( /\ all(1, 2, Digits) /\ line[3] = ":"
                        /\ all(4, 5, Digits) /\ line[6] = ":"
                        /\ all(7, 8, Digits)
                        /\ tsEnd = 12 => (line[9] = "." /\ all(10, 12, Digits))
                        /\ all(tsEnd + 1, nameAt - 1, Whitespace)
                        /\ all(nameAt, dotAt - 1, WordChars \cup {"-"})
                        /\ all(dotAt + 1, wsAt - 1, Digits)
                        /\ all(wsAt, pipeAt - 1, Whitespace) )
                      =>
                      LET name == SubSeq(line, nameAt, dotAt - 1)
                          msg  == trim(SubSeq(line, pipeAt + 1, n))
                      IN  parsedLines[i] =
                            [formatted   |-> <<"[">> \o upper(name) \o <<"]", " ">> \o msg,
                             message     |-> msg,
                             processName |-> name,
                             metadata    |->
                                [timestamp |-> SubSeq(line, 1, tsEnd),
                                 instance  |-> value(SubSeq(line, dotAt + 1, wsAt - 1))]]

\* the Foreman parser was given a line with a millisecond timestamp, a
\* process name with a hyphen and an underscore and a two-digit instance,
\* whose message holds a pipe and ends with whitespace inside the chunk
C22_Witness ==
    /\ processed
    /\ formatParser = "foreman"
    /\ Len(parsedLines) = 2
    /\ "metadata" \in DOMAIN parsedLines[1]
    /\ parsedLines[1].metadata.instance = 10
    /\ Len(parsedLines[1].metadata.timestamp) = 12
    /\ parsedLines[1].processName = <<"w", "e", "b", "-", "a", "p", "i", "_", "2">>
    /\ parsedLines[1].message = <<"x", " ", "|", " ", "x">>
    /\ parsedLines[1].formatted # linesOf(text)[1]

\* C23: for every line of the form token, whitespace, "|", whitespace,
\* message, the Docker Compose parser's display tag is the token without a
\* final "_<digits>" or "-<digits>", in upper case, while the process
\* identifier and metadata.container are the token as written.
C23_ContainerTag ==
    (processed /\ formatParser = "docker-compose") =>
        \A i \in 1..Len(parsedLines) :
            LET line  == linesOf(text)[i]
                token == SubSeq(line, 1, spanOfNot(line, 1, Whitespace))
                under == stripInstanceSuffix(token, "_")
                tag   == IF under # token THEN under
                                          ELSE stripInstanceSuffix(token, "-")
            IN  dockerMatch(line) =>
                    /\ parsedLines[i].formatted =
                           <<"[">> \o toUpperCase(tag) \o <<"]", " ">>
                               \o parsedLines[i].message
                    /\ parsedLines[i].processName = token
                    /\ parsedLines[i].metadata = [container |-> token]

\* C24: a message that contains EADDRINUSE, EACCES, ENOENT or ECONNREFUSED
\* is judged critical by every detector (base, Rails, NextJs, Django,
\* Express), whatever else the message contains.
C24_BaseSubstringsAlwaysCritical ==
    processed =>
        \A i \in 1..Len(parsedLines) :
            (\E k \in 1..Len(parsedLines[i].message) :
                parsedLines[i].message[k] \in
                    {"EADDRINUSE", "EACCES", "ENOENT", "ECONNREFUSED"})
            => /\ "isCritical" \in DOMAIN entries[i]
               /\ entries[i].isCritical

\* C25: for every framework profile and every message the base layer does
\* not flag, a message that matches one of the profile's exclusion patterns
\* and one of its inclusion patterns is classified non-critical.
C25_ExclusionDominatesInclusion ==
    (processed /\ errorDetector # "base") =>
        \A i \in 1..Len(parsedLines) :
            LET m == parsedLines[i].message
                exclusions ==
                    CASE errorDetector = "rails" ->
                            {"DEPRECATION WARNING", "Precompiling assets"}
                      [] errorDetector = "nextjs" ->
                            {"generateStaticParams", ".next", "Compiling"}
                      [] errorDetector = "django" -> {"INFO:"}
                      [] errorDetector = "express" -> {"nodemon"}
                inclusions ==
                    CASE errorDetector = "rails" -> {"LoadError"}
                      [] errorDetector = "nextjs" ->
                            {"TypeError:", "Error: Cannot find module", "FATAL ERROR:"}
                      [] errorDetector = "django" -> {"TypeError:"}
                      [] errorDetector = "express" ->
                            {"TypeError:", "Error: Cannot find module", "FATAL ERROR:"}
            IN  ( /\ ~BaseErrorDetector_isCritical(m)
                  /\ \E k \in 1..Len(m) : m[k] \in exclusions
                  /\ \E k \in 1..Len(m) : m[k] \in inclusions )
                => DOMAIN entries[i] = {"formatted"}

\* C26: with launch command "bin/dev", no explicit configuration (both
\* arguments "auto") and a Rails marker file in the working directory, the
\* factory resolves to the Foreman parser and the Rails error detector.
C26_BinDevIsForemanRails ==
    \A i \in 1..Len(factoryCalls) :
        ( /\ serverCommand = <<"bin/dev">>
          /\ "Gemfile" \in markerFiles
          /\ factoryCalls[i].processManager = "auto"
          /\ factoryCalls[i].framework = "auto" )
        => factoryCalls[i].processor =
              [formatParser |-> "foreman", errorDetector |-> "rails"]

\* both factories were called for "bin/dev" without explicit configuration
\* in a directory with a Gemfile
C26_Witness ==
    /\ serverCommand = <<"bin/dev">>
    /\ "Gemfile" \in markerFiles
    /\ Len(factoryCalls) = 2
    /\ factoryCalls[1].factory # factoryCalls[2].factory
    /\ \A i \in 1..2 : /\ factoryCalls[i].processManager = "auto"
                        /\ factoryCalls[i].framework = "auto"

\* C27: when a process-manager kind other than "auto" is given, the factory
\* returns the parser of that kind (the Foreman parser for the Foreman-like
\* managers overmind and hivemind), and when a framework kind other than
\* "auto" is given it returns the detector of that kind, for every launch
\* command, also one whose text would auto-detect something else.
C27_ExplicitKindRespected ==
    \A i \in 1..Len(factoryCalls) :
        LET call == factoryCalls[i]
        IN  /\ call.processManager # "auto" =>
                  call.processor.formatParser =
                      (IF call.processManager \in {"overmind", "hivemind"}
                       THEN "foreman" ELSE call.processManager)
            /\ call.framework # "auto" =>
                  call.processor.errorDetector = call.framework

\* OutputProcessorFactory.create was called for "bin/dev", which auto-detects
\* Foreman and Rails, with docker-compose and express given
C27_Witness ==
    /\ serverCommand = <<"bin/dev">>
    /\ \E i \in 1..Len(factoryCalls) :
          /\ factoryCalls[i].factory = "OutputProcessorFactory"
          /\ factoryCalls[i].processManager = "docker-compose"
          /\ factoryCalls[i].framework = "express"
          /\ factoryCalls[i].processor =
                [formatParser |-> "docker-compose", errorDetector |-> "express"]

\* C28: a session started with explicit --framework F and --process-manager
\* P classifies every chunk of the application's output as the parser of
\* kind P and the detector of kind F do: the same display texts, and the
\* critical flag on the same entries.
C28_CliOptionsDetermineClassification ==
    ( /\ processed
      /\ options.processManager # "auto"
      /\ options.framework # "auto" )
    =>
    LET expected == OutputProcessor_process(
                        FormatParser_parse(options.processManager, text),
                        isError, options.framework)
    IN  /\ Len(entries) = Len(expected)
        /\ \A i \in 1..Len(entries) :
              /\ entries[i].formatted = expected[i].formatted
              /\ entries[i].isCritical = ("isCritical" \in DOMAIN expected[i])

\* C29: with the framework argument "auto", the detector is the one of the
\* framework the launch command identifies; if the command identifies none,
\* the one of the framework the marker files of the working directory
\* identify; and if neither identifies a framework, the base detector.
C29_CommandThenMarkersThenBase ==
    \A i \in 1..Len(factoryCalls) :
        LET call == factoryCalls[i]
            byCommand ==
                IF call.factory = "OutputProcessorFactory"
                THEN ErrorDetectorFactory_detectFramework(serverCommand)
                ELSE IF containsAny(Command_toLowerCase(serverCommand),
                                    {"bin/rails", "bin/dev"})
                     THEN "rails" ELSE "unknown"
            byMarkers ==
                IF "Gemfile" \in markerFiles THEN "rails"
                ELSE IF "next.config.js" \in markerFiles THEN "nextjs"
                ELSE "unknown"
        IN  call.framework = "auto" =>
                call.processor.errorDetector =
                    (IF byCommand # "unknown" THEN byCommand
                     ELSE IF byMarkers # "unknown" THEN byMarkers
                     ELSE "base")

\* C30: for any launch command, two calls of a factory that are given the
\* same process-manager argument select the same parser kind whatever their
\* framework arguments, and two calls that are given the same framework
\* argument select the same detector kind whatever their process-manager
\* arguments.
C30_SelectionsIndependent ==
    \A i, j \in 1..Len(factoryCalls) :
        LET a == factoryCalls[i]
            b == factoryCalls[j]
        IN  a.factory = b.factory =>
                /\ a.processManager = b.processManager =>
                      a.processor.formatParser = b.processor.formatParser
                /\ a.framework = b.framework =>
                      a.processor.errorDetector = b.processor.errorDetector

\* a factory was called twice for a Foreman command with automatic framework
\* detection: once with automatic and once with an explicit, different
\* process manager, so that the parsers differ
C30_Witness ==
    /\ serverCommand = <<"foreman", " start">>
    /\ Len(factoryCalls) = 2
    /\ factoryCalls[1].factory = factoryCalls[2].factory
    /\ factoryCalls[1].framework = "auto"
    /\ factoryCalls[2].framework = "auto"
    /\ factoryCalls[1].processManager = "auto"
    /\ factoryCalls[2].processManager = "standard"
    /\ factoryCalls[1].processor.formatParser # factoryCalls[2].processor.formatParser

\* C31: the terminating flag is false in the constructed supervisor and never
\* goes back to false; an entry point of the shutdown (gracefulShutdown, the
\* SIGINT handler) that is invoked while the flag is false sets it and enters
\* the body in the same step, before any await; one that is invoked while the
\* flag is true returns at its first statement and changes nothing of the
\* shutdown; and nothing but an entry point sets the flag.
C31_FlagFirstWriterWins ==
    /\ [](bodyRuns = 0 => ~isShuttingDown)
    /\ [][/\ isShuttingDown => isShuttingDown'
          /\ triggers' # triggers =>
                IF isShuttingDown
                THEN UNCHANGED sdVars
                ELSE /\ isShuttingDown'
                     /\ bodyRuns' = bodyRuns + 1
                     /\ shutdownKind' \in {"sigint", "failure"}
          /\ (~isShuttingDown /\ isShuttingDown') => triggers' # triggers]_vars

\* a fatal exit of the application set the flag; an interrupt and a failure of
\* the instrumentation then both read it true, and the one body ran to the end
C31_Witness ==
    /\ exited
    /\ isShuttingDown
    /\ shutdownKind = "failure"
    /\ triggers["serverExit"] = 1
    /\ triggers["sigint"] >= 1
    /\ triggers["cdp"] = 1
    /\ bodyRuns = 1

\* C32: when the exit callback of a managed process (the application, the
\* companion) fires while the session is terminating, it has no effect
\* whatever the exit code: nothing is appended to the log, nothing is written
\* to the console and no shutdown is triggered.
C32_ExitWhileTerminatingIgnored ==
    [][(/\ isShuttingDown
        /\ \/ (serverProcess = "running" /\ serverProcess' = "exited")
           \/ (mcpServerProcess = "running" /\ mcpServerProcess' = "exited"))
          => UNCHANGED <<log, console, sdVars, triggers>>]_vars

\* C33: the steps of a shutdown body run in order.  cdpMonitor.shutdown() is
\* called only in the step in which the last of the two kill subprocesses has
\* exited, and it is called there exactly when a monitor exists at that moment,
\* whenever it was created.  The body ends the process either in that same
\* step, when there is no monitor, or in the step in which the call of
\* shutdown() settles, with or without a throw; so at an exit of the body both
\* kills were issued and have completed, and the monitor was asked to shut
\* down if and only if it was created.
C33_ShutdownStepOrder ==
    /\ [](cdpShutdownCalls > 0 <=> sdPc = "closingCdp")
    /\ [](sdPc = "closingCdp" =>
            /\ killPending = {}
            /\ \A p \in Ports : killsIssued[p] = 1
            /\ cdpMonitor = "created"
            /\ cdpShutdownCalls = 1)
    /\ [][cdpShutdownCalls' # cdpShutdownCalls =>
            /\ sdPc = "killing"
            /\ killPending # {}
            /\ killPending' = {}
            /\ cdpMonitor = "created"
            /\ ~exited']_vars
    /\ [][(/\ ~exited /\ exited'
           /\ sdPc # "none"
           /\ UNCHANGED <<startVars, instVars>>) =>
            /\ killPending' = {}
            /\ \A p \in Ports : killsIssued[p] = 1
            /\ IF cdpMonitor = "null"
               THEN sdPc = "killing" /\ killPending # {} /\ cdpShutdownCalls' = 0
               ELSE sdPc = "closingCdp" /\ cdpShutdownCalls' = 1
            /\ exitCode' = bodyExitCode]_vars

\* an interrupt was handled while the monitor existed and Chrome was still
\* being launched: both kills completed, the monitor was asked to shut down
\* once, and the handler ended the process with status 0
C33_Witness ==
    /\ exited
    /\ exitCode = 0
    /\ shutdownKind = "sigint"
    /\ sdPc = "closingCdp"
    /\ killPending = {}
    /\ cdpMonitor = "created"
    /\ cdpPhase = "starting"
    /\ cdpShutdownCalls = 1

\* C34: every call of the callback given to the CDP monitor appends exactly
\* one entry to the log, tagged BROWSER, and every entry that a chunk of the
\* application's stdout or stderr appends is tagged SERVER.  A browser event
\* carries no critical flag and is never treated as critical, whatever its
\* text: nothing is written to the console, no shutdown is entered and the
\* process does not exit.
C34_BrowserEventsOnlyLogged ==
    /\ [](\A i \in 1..Len(console) : ~containsAny(console[i], {"browser event 1",
                                                               "browser event 2"}))
    /\ [][/\ browserEvents' # browserEvents =>
                /\ Len(log') = Len(log) + 1
                /\ SubSeq(log', 1, Len(log)) = log
                /\ log'[Len(log')] = [source  |-> "BROWSER",
                                      message |-> browserMessage(browserEvents')]
                /\ UNCHANGED <<console, sdVars, triggers, exitVars>>
          /\ (stdoutRead' # stdoutRead \/ stderrRead' # stderrRead) =>
                /\ SubSeq(log', 1, Len(log)) = log
                /\ \A e \in (Len(log) + 1)..Len(log') : log'[e].source = "SERVER"]_vars

\* the browser reported an error whose text the parser would call critical,
\* after a line of stdout was logged: the event is the last entry of the log,
\* the console is empty and the session runs on
C34_Witness ==
    /\ browserEvents = 1
    /\ OutputParser_isCriticalError(browserMessage(1))
    /\ stdoutRead > 0
    /\ stderrRead = 0
    /\ log[Len(log)].source = "BROWSER"
    /\ log[Len(log) - 1].source = "SERVER"
    /\ console = <<>>
    /\ ~isShuttingDown
    /\ ~exited

\* C35: installMcpServerDeps settles, and settles once.  Its promise is
\* resolved exactly when the installer exited with code 0 while the timeout
\* was still armed; when the timeout fires first the installer is killed and
\* the promise is rejected; a settled promise never changes; and a pending one
\* is settled in the end, unless the supervisor has exited before.
C35_InstallSettlesOnce ==
    /\ [](installPromise = "resolved" <=>
            (installProcess = "exited" /\ installExitCode = 0))
    /\ [](installPromise = "pending" <=> installProcess = "running")
    /\ [](installPromise = "pending" <=> installTimer)
    /\ [](installProcess \in {"killed", "error"} => installPromise = "rejected")
    /\ [][/\ installPromise \in {"resolved", "rejected"} =>
                installPromise' = installPromise
          /\ (installPromise = "pending" /\ installPromise' = "resolved") =>
                installTimer /\ ~installTimer'
          /\ installProcess' = "killed" =>
                \/ installProcess = "killed"
                \/ (installTimer /\ ~installTimer' /\ installPromise' = "rejected")]_vars
    /\ (installPromise = "pending") ~> (installPromise # "pending" \/ exited)

\* the installer never exited: the timeout fired, killed it and rejected the
\* promise, and the rejection ended the supervisor with status 1
C35_Witness ==
    /\ installProcess = "killed"
    /\ installPromise = "rejected"
    /\ ~installTimer
    /\ installExitCode = NullCode
    /\ exited
    /\ exitCode = 1

\* C36: a readiness wait issues at most maxAttempts = 30 probes and ends.  A
\* probe is in flight only while fewer than 30 have failed; a probe that is
\* answered with a success status or with 404 ends the wait as ready in the
\* same step, with no further probe of that wait; any other answer, a network
\* error or the probe's timeout counts one failed attempt and the wait sleeps
\* before it probes again; the wait gives up only after 30 failed attempts;
\* and a wait that was entered is left in the end, unless the supervisor has
\* exited before.
C36_ReadinessWaitBounded ==
    /\ [](attempts <= maxAttempts)
    /\ [](probe = "inflight" => attempts < maxAttempts)
    /\ [][/\ \A o \in ProbeOutcomes :
                waitForServer_probe(o) =>
                    IF o \in {"ok", "notFound"}
                    THEN /\ waitResult'["server"] = "ready"
                         /\ pc' = "waitForMcpServer"
                         /\ attempts' = 0
                    ELSE /\ pc' = pc
                         /\ waitResult' = waitResult
                         /\ attempts' = attempts + 1
                         /\ probe' = "sleeping"
          /\ \A o \in ProbeOutcomes :
                waitForMcpServer_probe(o) =>
                    IF o \in {"ok", "notFound"}
                    THEN /\ waitResult'["mcp"] = "ready"
                         /\ pc' = "running"
                         /\ probe' = "none"
                    ELSE /\ pc' = pc
                         /\ waitResult' = waitResult
                         /\ attempts' = attempts + 1
                         /\ probe' = "sleeping"
          /\ \A w \in {"server", "mcp"} :
                (waitResult[w] = "pending" /\ waitResult'[w] = "exhausted") =>
                    (attempts = maxAttempts /\ probe = "sleeping")
          /\ (probe = "sleeping" /\ probe' = "inflight" /\ pc' = pc) =>
                (attempts' = attempts /\ attempts < maxAttempts)]_vars
    /\ (pc = "waitForServer") ~> (pc # "waitForServer" \/ exited)
    /\ (pc = "waitForMcpServer") ~> (pc # "waitForMcpServer" \/ exited)

\* the wait for the application gave up after 30 failed probes, and the wait
\* for the companion ended as ready at its fourth probe
C36_Witness ==
    /\ waitResult["server"] = "exhausted"
    /\ waitResult["mcp"] = "ready"
    /\ pc = "running"
    /\ attempts = 3

\* C37: under the NextJs detector a message that contains 'FATAL' is critical
\* unless it also contains 'generateStaticParams', and then it is not
\* critical; a message that contains 'Cannot find module' is critical unless
\* it also contains '.next', and then it is not critical.  Each rule is read
\* on the messages that hold nothing else a detector looks for.
C37_NextJsSpecialCases ==
    (processed /\ errorDetector = "nextjs") =>
        \A i \in 1..Len(parsedLines) :
            LET m == parsedLines[i].message
                only(S) == \A k \in 1..Len(m) : m[k] \in S \cup {"x"}
                critical == /\ "isCritical" \in DOMAIN entries[i]
                            /\ entries[i].isCritical
            IN  /\ ( /\ containsAny(m, {"FATAL ERROR:"})
                     /\ only({"FATAL ERROR:", "generateStaticParams"}) )
                    => (critical <=> ~containsAny(m, {"generateStaticParams"}))
                /\ ( /\ containsAny(m, {"Error: Cannot find module"})
                     /\ only({"Error: Cannot find module", ".next"}) )
                    => (critical <=> ~containsAny(m, {".next"}))

\* C38: once a shutdown body has started, the supervisor exits in the end.
\* The kill subprocess of a port counts as done when it exits, whatever its
\* code and whether or not it found a process to kill, and a throw of
\* cdpMonitor.shutdown() is caught: the step in which the call settles ends
\* the process either way.
C38_ShutdownBodyReachesExit ==
    (sdPc # "none") ~> exited

\* a fatal exit of the application started the body before a monitor existed;
\* the monitor was created while the kills ran, the body asked it to shut
\* down, and the process ended with status 1
C38_Witness ==
    /\ exited
    /\ exitCode = 1
    /\ shutdownKind = "failure"
    /\ triggers["serverExit"] = 1
    /\ triggers["sigint"] = 0
    /\ triggers["cdp"] = 0
    /\ killPending = {}
    /\ sdPc = "closingCdp"
    /\ cdpShutdownCalls = 1
    /\ serverExitCode = 2
    /\ waitResult["server"] = "exhausted"

\* C39: the refactoring kept the behaviour.  For every chunk and either
\* stream, the OutputProcessor made of the StandardFormatParser and the
\* NextJsErrorDetector returns as many entries as the legacy
\* StandardOutputParser.parse does, with the same formatted strings in the
\* same order, and flags the same lines as critical.
C39_RefactorKeepsBehaviour ==
    (processed /\ formatParser = "standard" /\ errorDetector = "nextjs") =>
        LET legacy == StandardOutputParser_parse(text, isError)
        IN  /\ Len(entries) = Len(legacy)
            /\ \A i \in 1..Len(entries) :
                  /\ entries[i].formatted = legacy[i].formatted
                  /\ ("isCritical" \in DOMAIN entries[i] /\ entries[i].isCritical)
                        <=> legacy[i].isCritical

====
